---- MODULE Spec2Model ----
(***************************************************************************)
(* DRT-PRR: household relocation after a disaster, one step per month.     *)
(* The engine (DTRecoveryModel, src/drt_prr/model.py), the household state *)
(* machine (HouseholdAgent, src/drt_prr/agent.py) and the stochastic       *)
(* decision controller (src/drt_prr/stochastic_manager.py).                *)
(*                                                                         *)
(* The Python methods mutate objects in sequence; each method is written   *)
(* here as an operator from a run state s = [model |-> .., agents |-> ..]  *)
(* to the run state after the call, and the actions apply them to the      *)
(* variables.  Coordinates are integer pairs.  Where the source compares   *)
(* two Euclidean norms the squares are compared; where it divides a norm   *)
(* by max_service_distance the layout makes the norm an integer or at      *)
(* least max_service_distance.  Normalised distances are kept as           *)
(* numerators over max_service_distance, satisfaction as a numerator over  *)
(* SatDen; the layout makes max_service_distance a power of two, so the    *)
(* binary floating point of the source computes the same values.           *)
(***************************************************************************)
EXTENDS Integers, Sequences, FiniteSets, TLC

\* ------------------------------------------------------------------ bounds
NumHouseholds == 3
MaxSteps == 3
NumShelters == 2
\* config.TOTAL_SHELTER_UNITS, scaled down from 20000
TOTAL_SHELTER_UNITS == 5
MaxDecisions == 24
\* months of a long run, in which a household can leave, return and decline again
MaxLongSteps == 6

\* --------------------------------------------------------------- constants
None == -1
DEFAULT_SHELTER_CAPACITY == 1
\* thresholds 0.5 as halves: value >= 1/2
SATISFACTION_THRESHOLD_NUM == 1
SATISFACTION_THRESHOLD_DEN == 2
RENTAL_ECONOMIC_THRESHOLD_NUM == 1
RENTAL_ECONOMIC_THRESHOLD_DEN == 2
\* incomes, liquidity and service functionality are kept doubled (1.0 -> 2)
INCOME_HIGH == 2
INCOME_LOW == 1
MIN_SERVICE_FUNCTIONALITY == 1
\* the reference configuration leaves it unset; a run has to supply it
MONTHS_BEFORE_LEAVE_CITY == 2

\* percent of the total capacity that is open, by step
SHELTER_ACTIVATION_SCHEDULE == <<20, 57, 100>>

\* the schedule's values as the doubles Python reads: the double of
\* percent / 100 is M / 2^(53 + shift) and e = percent * 2^(53 + shift) - 100 * M
\* (0.20 is 3602879701896397 / 2^54, 0.57 is 5134103575202365 / 2^53)
ACTIVATION_DOUBLE_ERROR ==
  << [e |-> -20, shift |-> 1], [e |-> 44, shift |-> 0], [e |-> 0, shift |-> 0] >>

\* monthly cap on departures, by step (4000, 16000, inf scaled down)
EVACUATION_LIMITS ==
  << [inf |-> FALSE, cap |-> 1], [inf |-> FALSE, cap |-> 2], [inf |-> TRUE, cap |-> 0] >>

Max(a, b) == IF a >= b THEN a ELSE b
Min(a, b) == IF a <= b THEN a ELSE b

RECURSIVE SumOver(_, _)
SumOver(f, S) ==
  IF S = {} THEN 0
  ELSE LET e == CHOOSE e \in S : TRUE IN f[e] + SumOver(f, S \ {e})

\* ------------------------------------------------------------ input tables
\* household table (rows in creation order); r_id None = no relative,
\* 99 = a relative id that resolves to no household
HouseholdRows == <<
  [H_ID |-> 1, x_coord |-> 11, y_coord |-> 10, B_ID |-> 1, R_ID |-> 2, J_ID |-> 4,
   closest_hospital_ID |-> 4, closest_school_ID |-> 6,
   employment |-> 1, income |-> 2, liquid |-> 2, Tenure |-> "Ownership",
   dist_to_agent_norm |-> 0],
  [H_ID |-> 2, x_coord |-> 9, y_coord |-> 10, B_ID |-> 2, R_ID |-> None, J_ID |-> 4,
   closest_hospital_ID |-> 4, closest_school_ID |-> 6,
   employment |-> 1, income |-> 1, liquid |-> 1, Tenure |-> "Ownership",
   dist_to_agent_norm |-> 0],
  [H_ID |-> 3, x_coord |-> 10, y_coord |-> 14, B_ID |-> 3, R_ID |-> 1, J_ID |-> 5,
   closest_hospital_ID |-> 4, closest_school_ID |-> 6,
   employment |-> 1, income |-> 2, liquid |-> 1, Tenure |-> "Rental",
   dist_to_agent_norm |-> 0],
  [H_ID |-> 4, x_coord |-> 11, y_coord |-> 10, B_ID |-> 1, R_ID |-> 99, J_ID |-> 5,
   closest_hospital_ID |-> 4, closest_school_ID |-> 6,
   employment |-> 1, income |-> 2, liquid |-> 1, Tenure |-> "Ownership",
   dist_to_agent_norm |-> 0] >>

Households == 1..NumHouseholds

\* buildings that have a row in the recovery table (df_recovery); the
\* hospital's building 4 is also the job of households 1 and 2
RecoveryBuildings == {1, 2, 3, 4}

\* service and shelter locations
school_coords_dict == [i \in {6} |-> <<10, 10>>]
hospital_coords_dict == [i \in {4} |-> <<10, 10>>]
ShelterRows == << <<10, 11>>, <<16, 18>>, <<1, 22>> >>
shelter_coords_array == [i \in 0..(NumShelters - 1) |-> ShelterRows[i + 1]]

\* new buildings (df_new_buildings), in table order
new_buildings_order == <<8>>
new_buildings_info == [b \in {8} |-> [id |-> 8, x_coord |-> 10, y_coord |-> 9]]

\* the coordinate of a household that left the city
Outside == <<0, 0>>

\* the square of np.linalg.norm(p - q)
Dist2(p, q) == (p[1] - q[1]) * (p[1] - q[1]) + (p[2] - q[2]) * (p[2] - q[2])

\* the norm itself, for the squares the layout produces
Norm(d2) == CHOOSE r \in 0..d2 : r * r = d2

\* ------------------------------------------------- state of a run
VARIABLES
  model,               \* the DTRecoveryModel's fields
  agents,              \* h_id -> the HouseholdAgent's fields
  stochastic_manager,  \* the StochasticDecisionManager's fields
  replay               \* a second run of the same inputs (model and agents)

vars == <<model, agents, stochastic_manager, replay>>

State == [model |-> model, agents |-> agents]

\* _calculate_max_service_distance: the largest distance from a household's
\* original coordinate to its nearest school / hospital (1.0 when that is 0)
NearestDist(coord, coords) ==
  LET d == {Dist2(coord, coords[i]) : i \in DOMAIN coords}
  IN Norm(CHOOSE m \in d : \A k \in d : m <= k)

HomeCoord(h) == <<HouseholdRows[h].x_coord, HouseholdRows[h].y_coord>>

max_service_distance ==
  LET S == {NearestDist(HomeCoord(h), school_coords_dict) : h \in Households}
           \cup {NearestDist(HomeCoord(h), hospital_coords_dict) : h \in Households}
      m == CHOOSE m \in S : \A k \in S : m >= k
  IN IF m > 0 THEN m ELSE 1

\* min(1.0, norm / max_service_distance) for the squared norm d2, as a
\* numerator over max_service_distance
NormDist(d2) ==
  IF d2 >= max_service_distance * max_service_distance THEN max_service_distance
  ELSE Norm(d2)

\* satisfaction is a numerator over SatDen: three distance factors over
\* max_service_distance, two service factors over 2
SatDen == 4 * max_service_distance * max_service_distance * max_service_distance

\* the key f"{b_id}_{h_id}" of a rental unit, as a number
IdBase == 100
RentalUnitId(b_id, h_id) == b_id * IdBase + h_id

\* _create_agents: one rental unit per household, keyed by building and household
rental_units ==
  [u \in {RentalUnitId(HouseholdRows[h].B_ID, h) : h \in Households} |->
     LET h == CHOOSE h \in Households : RentalUnitId(HouseholdRows[h].B_ID, h) = u
     IN [building_id |-> HouseholdRows[h].B_ID, coord |-> HomeCoord(h)]]

\* dict.get(key, default)
Get(d, key, default) == IF key \in DOMAIN d THEN d[key] ELSE default

\* calc_satisfaction_fast that looks up the original building whichever
\* location is evaluated
calc_satisfaction_fast_OriginalBuilding(s, h, use_original_location) ==
  LET a == s.agents[h]
      dist_job == IF use_original_location THEN a.original_dist_to_job ELSE a.dist_to_job
      dist_school == IF use_original_location THEN a.original_dist_to_school ELSE a.dist_to_school
      dist_hospital == IF use_original_location THEN a.original_dist_to_hospital ELSE a.dist_to_hospital
      housing_func == Get(s.model.recovery_lookup, a.original_b_id, 1)
      job_func == Get(s.model.job_functionality_cache, a.job_id, 1)
      employment_factor == IF job_func = 1 THEN a.employment ELSE 0
      work_condition == (max_service_distance - dist_job) * employment_factor
      hospital_func == Get(s.model.service_functionality_cache, <<"hospital", a.hospital_id>>,
                           MIN_SERVICE_FUNCTIONALITY)
      hospital_condition == (max_service_distance - dist_hospital) * hospital_func
      school_func == Get(s.model.service_functionality_cache, <<"school", a.school_id>>,
                         MIN_SERVICE_FUNCTIONALITY)
      school_condition == (max_service_distance - dist_school) * school_func
      satisfaction == housing_func * work_condition * hospital_condition * school_condition
  IN IF housing_func = 0 THEN 0
     ELSE IF work_condition = 0 THEN 0
     ELSE Max(0, Min(SatDen, satisfaction))

\* HouseholdAgent.calc_satisfaction_fast
calc_satisfaction_fast(s, h, use_original_location) ==
  LET a == s.agents[h]
      b_id == IF use_original_location THEN a.original_b_id ELSE a.b_id
      dist_job == IF use_original_location THEN a.original_dist_to_job ELSE a.dist_to_job
      dist_school == IF use_original_location THEN a.original_dist_to_school ELSE a.dist_to_school
      dist_hospital == IF use_original_location THEN a.original_dist_to_hospital ELSE a.dist_to_hospital
      housing_func == Get(s.model.recovery_lookup, b_id, 1)
      job_func == Get(s.model.job_functionality_cache, a.job_id, 1)
      employment_factor == IF job_func = 1 THEN a.employment ELSE 0
      work_condition == (max_service_distance - dist_job) * employment_factor
      hospital_func == Get(s.model.service_functionality_cache, <<"hospital", a.hospital_id>>,
                           MIN_SERVICE_FUNCTIONALITY)
      hospital_condition == (max_service_distance - dist_hospital) * hospital_func
      school_func == Get(s.model.service_functionality_cache, <<"school", a.school_id>>,
                         MIN_SERVICE_FUNCTIONALITY)
      school_condition == (max_service_distance - dist_school) * school_func
      satisfaction == housing_func * work_condition * hospital_condition * school_condition
  IN IF housing_func = 0 THEN 0
     ELSE IF work_condition = 0 THEN 0
     ELSE Max(0, Min(SatDen, satisfaction))

\* satisfaction >= config.SATISFACTION_THRESHOLD
AtLeastThreshold(sat) == sat * SATISFACTION_THRESHOLD_DEN >= SATISFACTION_THRESHOLD_NUM * SatDen

\* HouseholdAgent.__init__ (the fields the decisions read or write)
NewAgent(h) ==
  LET row == HouseholdRows[h]
  IN [h_id |-> h,
      coord |-> HomeCoord(h), original_coord |-> HomeCoord(h),
      b_id |-> row.B_ID, original_b_id |-> row.B_ID,
      r_id |-> row.R_ID, job_id |-> row.J_ID,
      hospital_id |-> row.closest_hospital_ID, school_id |-> row.closest_school_ID,
      original_employment |-> row.employment, original_income |-> row.income,
      original_liquid |-> row.liquid,
      employment |-> row.employment, income |-> row.income, liquid |-> row.liquid,
      economic_score |-> row.employment * row.income * row.liquid,
      tenure |-> row.Tenure,
      original_dist_to_job |-> row.dist_to_agent_norm,
      dist_to_job |-> row.dist_to_agent_norm,
      original_dist_to_school |->
         NormDist(Dist2(HomeCoord(h), school_coords_dict[row.closest_school_ID])),
      original_dist_to_hospital |->
         NormDist(Dist2(HomeCoord(h), hospital_coords_dict[row.closest_hospital_ID])),
      dist_to_school |->
         NormDist(Dist2(HomeCoord(h), school_coords_dict[row.closest_school_ID])),
      dist_to_hospital |->
         NormDist(Dist2(HomeCoord(h), hospital_coords_dict[row.closest_hospital_ID])),
      satisfaction |-> 0,
      has_ever_left_original |-> FALSE,
      relocation_status |-> "original", relocation_status_2 |-> "None",
      shelter_id |-> None, rental_unit_id |-> None,
      new_building_id |-> None, is_in_new_building |-> FALSE,
      months_low_satisfaction |-> 0,
      has_left_city |-> FALSE, has_left_deterministically |-> FALSE,
      relocation_history |-> << >>]

\* DTRecoveryModel.__init__ up to _create_agents.  recovery_lookup and
\* new_building_lookup hold the column of current_month only (no method
\* reads another month's column); before the first advance the month is
\* None and no key matches.
NewModel ==
  [current_step |-> 0, current_month |-> None,
   cursor |-> 0,
   recovery_lookup |-> [b \in {} |-> 0],
   new_building_lookup |-> [b \in {} |-> 0],
   job_functionality_cache |-> [j \in {} |-> 0],
   service_functionality_cache |-> [k \in {} |-> 0],
   shelter_capacity |-> [i \in DOMAIN shelter_coords_array |-> DEFAULT_SHELTER_CAPACITY],
   shelter_occupancy |-> [i \in DOMAIN shelter_coords_array |-> 0],
   total_shelter_capacity |-> TOTAL_SHELTER_UNITS * DEFAULT_SHELTER_CAPACITY,
   current_shelter_occupancy |-> 0,
   monthly_evacuations |-> [m \in {} |-> 0],
   occupied_new_buildings |-> {},
   occupied_rental_units |->
      {RentalUnitId(HouseholdRows[h].B_ID, h) : h \in {k \in Households : HouseholdRows[k].Tenure = "Rental"}},
   available_rental_units |-> {},
   left_city_stats |-> [total_departures |-> 0, total_returns |-> 0],
   monthly_distributions |-> [m \in {} |-> 0],
   longitudinal_data |-> << >>,
   collect_longitudinal |-> TRUE]

\* _initialize_predisaster_state
InitialState ==
  LET s0 == [model |-> NewModel, agents |-> [h \in Households |-> NewAgent(h)]]
  IN [s0 EXCEPT !.agents = [h \in Households |->
        [s0.agents[h] EXCEPT !.satisfaction = calc_satisfaction_fast(s0, h, TRUE)]]]

\* ------------------------------------------------------- engine (model.py)
\* config.get_shelter_activation
get_shelter_activation(step) ==
  IF step \in DOMAIN SHELTER_ACTIVATION_SCHEDULE
  THEN SHELTER_ACTIVATION_SCHEDULE[step]
  ELSE SHELTER_ACTIVATION_SCHEDULE[Len(SHELTER_ACTIVATION_SCHEDULE)]

\* config.get_evacuation_limit
get_evacuation_limit(step) ==
  IF step \in DOMAIN EVACUATION_LIMITS
  THEN EVACUATION_LIMITS[step]
  ELSE EVACUATION_LIMITS[Len(EVACUATION_LIMITS)]

\* the key of the schedule that get_shelter_activation uses for a step
ActivationKey(step) ==
  IF step \in DOMAIN SHELTER_ACTIVATION_SCHEDULE THEN step
  ELSE Len(SHELTER_ACTIVATION_SCHEDULE)

RECURSIVE BitLength(_)
BitLength(n) == IF n = 0 THEN 0 ELSE 1 + BitLength(n \div 2)

\* the product total * activation is a product of doubles: an exact
\* quotient total * percent / 100 that is not whole is far from the next
\* integer and the product truncates to its floor; when it is a whole
\* number N and the double lies below the decimal (e > 0), the product is
\* N - total * e / (100 * 2^(53 + shift)), which rounds up to N only if
\* that deficit is less than half a unit in the last place of the
\* doubles just below N (the two are never equal for these values)
FloatProductTruncated(total, key) ==
  LET percent == SHELTER_ACTIVATION_SCHEDULE[key]
      e == ACTIVATION_DOUBLE_ERROR[key].e
      N == (total * percent) \div 100
  IN IF (total * percent) % 100 # 0 \/ e <= 0 \/ total = 0 THEN N
     ELSE IF 2 * total * e
               < 100 * 2^(BitLength(N - 1) + ACTIVATION_DOUBLE_ERROR[key].shift)
     THEN N ELSE N - 1

\* int(total_shelter_capacity * activation) at a step
ActiveCapacityAt(total, step) == FloatProductTruncated(total, ActivationKey(step))

\* DTRecoveryModel.get_active_shelter_capacity: int(total * activation)
get_active_shelter_capacity(s) ==
  ActiveCapacityAt(s.model.total_shelter_capacity, s.model.current_step)

\* shelter_kdtree.query(coord, k = all): the shelters by increasing distance
\* (equal distances, which the layout excludes, by index); the scan of
\* find_shelter_for_agent stops at the first one with room
NearestShelterWithRoom(s, coord) ==
  LET room == {i \in DOMAIN shelter_coords_array :
                 s.model.shelter_occupancy[i] < s.model.shelter_capacity[i]}
      d(i) == Dist2(coord, shelter_coords_array[i])
  IN IF room = {} THEN None
     ELSE CHOOSE i \in room : \A j \in room : d(i) < d(j) \/ (d(i) = d(j) /\ i <= j)

\* find_shelter_for_agent without the check of the aggregate occupancy
find_shelter_for_agent_SlotsOnly(s, h) ==
  LET idx == NearestShelterWithRoom(s, s.agents[h].coord)
  IN IF idx = None THEN [s |-> s, result |-> None]
     ELSE [s |-> [s EXCEPT !.model.shelter_occupancy[idx] = @ + 1,
                           !.model.current_shelter_occupancy = @ + 1],
           result |-> idx]

\* DTRecoveryModel.find_shelter_for_agent: the state after the call and
\* the slot it returns (None when denied)
find_shelter_for_agent(s, h) ==
  IF s.model.current_shelter_occupancy >= get_active_shelter_capacity(s)
  THEN [s |-> s, result |-> None]
  ELSE LET idx == NearestShelterWithRoom(s, s.agents[h].coord)
       IN IF idx = None THEN [s |-> s, result |-> None]
          ELSE [s |-> [s EXCEPT !.model.shelter_occupancy[idx] = @ + 1,
                                !.model.current_shelter_occupancy = @ + 1],
                result |-> idx]

\* can_evacuate_agent that admits one departure more (<= for <)
can_evacuate_agent_OffByOne(s, month) ==
  LET limit == get_evacuation_limit(s.model.current_step)
      current == Get(s.model.monthly_evacuations, month, 0)
  IN limit.inf \/ current <= limit.cap

\* DTRecoveryModel.can_evacuate_agent
can_evacuate_agent(s, month) ==
  LET limit == get_evacuation_limit(s.model.current_step)
      current == Get(s.model.monthly_evacuations, month, 0)
  IN limit.inf \/ current < limit.cap

\* record_agent_evacuation that leaves the month's counter as it is
record_agent_evacuation_NotCounted(s, month) ==
  LET ev == s.model.monthly_evacuations
  IN [s EXCEPT !.model.monthly_evacuations =
        [m \in DOMAIN ev \cup {month} |-> Get(ev, m, 0)]]

\* DTRecoveryModel.record_agent_evacuation
record_agent_evacuation(s, month) ==
  LET ev == s.model.monthly_evacuations
  IN [s EXCEPT !.model.monthly_evacuations =
        [m \in DOMAIN ev \cup {month} |-> Get(ev, m, 0) + (IF m = month THEN 1 ELSE 0)]]

\* the loop of find_available_rental_for_agent over available_list, which
\* keeps the first unit of strictly smaller distance
RECURSIVE ScanRentals(_, _, _, _, _)
ScanRentals(available_list, i, coord, best_rental, best_distance) ==
  IF i > Len(available_list) THEN best_rental
  ELSE LET rental_id == available_list[i]
           distance == Dist2(coord, rental_units[rental_id].coord)
       IN IF best_rental = None \/ distance < best_distance
          THEN ScanRentals(available_list, i + 1, coord, rental_id, distance)
          ELSE ScanRentals(available_list, i + 1, coord, best_rental, best_distance)

\* the orders in which a set of unit keys (strings) can be iterated: the
\* order follows the keys' hashes, which differ from process to process
IterationOrders(units) ==
  {o \in [1..Cardinality(units) -> units] : \A i, j \in DOMAIN o : i # j => o[i] # o[j]}

\* DTRecoveryModel.find_available_rental_for_agent; order is the iteration
\* order of list(self.available_rental_units).  A household's step looks
\* for a rental at most once, before it changes the set, so the order is
\* one of the set as it is when the step begins.
find_available_rental_for_agent(s, h, order) ==
  IF s.model.available_rental_units = {} THEN None
  ELSE LET InAvailable(u) == u \in s.model.available_rental_units
           available_list == SelectSeq(order, InAvailable)
       IN ScanRentals(available_list, 1, s.agents[h].coord, None, 0)

\* the loop of find_available_new_building that takes a building without
\* an entry for the month as functional
RECURSIVE ScanNewBuildings_DefaultFunctional(_, _, _)
ScanNewBuildings_DefaultFunctional(order, s, i) ==
  IF i > Len(order) THEN None
  ELSE IF order[i] \in s.model.occupied_new_buildings
  THEN ScanNewBuildings_DefaultFunctional(order, s, i + 1)
  ELSE IF Get(s.model.new_building_lookup, order[i], 1) = 1 THEN order[i]
  ELSE ScanNewBuildings_DefaultFunctional(order, s, i + 1)

\* the loop of find_available_new_building over new_buildings_info.items(),
\* whose keys come in the order of the table's rows
RECURSIVE ScanNewBuildings(_, _, _)
ScanNewBuildings(order, s, i) ==
  IF i > Len(order) THEN None
  ELSE IF order[i] \in s.model.occupied_new_buildings
  THEN ScanNewBuildings(order, s, i + 1)
  ELSE IF Get(s.model.new_building_lookup, order[i], 0) = 1 THEN order[i]
  ELSE ScanNewBuildings(order, s, i + 1)

\* find_available_new_building for which a missing entry means functional
FindNewBuilding_DefaultFunctional(order, s) == ScanNewBuildings_DefaultFunctional(order, s, 1)

\* find_available_new_building over the table order
FindNewBuilding(order, s) == ScanNewBuildings(order, s, 1)

\* DTRecoveryModel.find_available_new_building
find_available_new_building(s) == FindNewBuilding(new_buildings_order, s)

\* DTRecoveryModel._update_functionality_caches (no new jobs are configured)
update_functionality_caches(s) ==
  LET lookup == s.model.recovery_lookup
      jobs == {s.agents[h].job_id : h \in Households}
      old == s.model.job_functionality_cache
      Service(id) == IF Get(lookup, id, 1) = 1 THEN 2 ELSE MIN_SERVICE_FUNCTIONALITY
  IN [s EXCEPT
        !.model.job_functionality_cache =
           [j \in DOMAIN old \cup jobs |-> IF j \in jobs THEN Get(lookup, j, 1) ELSE old[j]],
        !.model.service_functionality_cache =
           [k \in ({<<"school", i>> : i \in DOMAIN school_coords_dict}
                   \cup {<<"hospital", i>> : i \in DOMAIN hospital_coords_dict}) |->
              Service(k[2])]]

\* DTRecoveryModel._update_available_rentals
update_available_rentals(s) ==
  LET functional(u) == Get(s.model.recovery_lookup, rental_units[u].building_id, 0) = 1
      free == DOMAIN rental_units \ s.model.occupied_rental_units
  IN [s EXCEPT !.model.available_rental_units =
        (@ \cup {u \in free : functional(u)}) \ {u \in free : ~functional(u)}]

\* ---------------------------------------------------- household (agent.py)
\* HouseholdAgent.update_economic_status.  No new jobs are configured and
\* job_id never changes, so the income of a functional job is the original.
update_economic_status(s, h) ==
  LET a == s.agents[h]
      job_func == Get(s.model.job_functionality_cache, a.job_id, 1)
      employment == IF job_func = 0 THEN 0 ELSE a.original_employment
      income == IF job_func = 0 THEN INCOME_LOW ELSE a.original_income
  IN [s EXCEPT !.agents[h].employment = employment,
               !.agents[h].income = income,
               !.agents[h].liquid = a.original_liquid,
               !.agents[h].economic_score = employment * income * a.original_liquid]

\* economic_score >= config.RENTAL_ECONOMIC_THRESHOLD (the score is kept times 4)
CanAffordRental(a) ==
  a.economic_score * RENTAL_ECONOMIC_THRESHOLD_DEN >= RENTAL_ECONOMIC_THRESHOLD_NUM * 4

\* HouseholdAgent._update_service_distances
update_service_distances(s, h) ==
  LET a == s.agents[h]
  IN [s EXCEPT
        !.agents[h].dist_to_school =
           IF a.school_id \in DOMAIN school_coords_dict
           THEN NormDist(Dist2(a.coord, school_coords_dict[a.school_id])) ELSE @,
        !.agents[h].dist_to_hospital =
           IF a.hospital_id \in DOMAIN hospital_coords_dict
           THEN NormDist(Dist2(a.coord, hospital_coords_dict[a.hospital_id])) ELSE @]

\* Python truth value of an id that may be None
Truthy(v) == v # None /\ v # 0

\* HouseholdAgent._leave_current_location (is_temporary_renter is never set)
leave_current_location(s, h) ==
  LET a == s.agents[h]
      LeaveShelter(s0) ==
        IF a.relocation_status = "shelter" /\ a.shelter_id # None
        THEN [s0 EXCEPT !.model.shelter_occupancy[a.shelter_id] = @ - 1,
                        !.agents[h].shelter_id = None]
        ELSE s0
      LeaveRental(s1) ==
        IF a.relocation_status = "rental" /\ a.rental_unit_id # None
        THEN [s1 EXCEPT !.model.occupied_rental_units = @ \ {a.rental_unit_id},
                        !.model.available_rental_units = @ \cup {a.rental_unit_id},
                        !.agents[h].rental_unit_id = None]
        ELSE s1
      LeaveNewBuilding(s2) ==
        IF a.is_in_new_building /\ Truthy(a.new_building_id)
        THEN [s2 EXCEPT !.model.occupied_new_buildings = @ \ {a.new_building_id},
                        !.agents[h].new_building_id = None,
                        !.agents[h].is_in_new_building = FALSE]
        ELSE s2
  IN LeaveNewBuilding(LeaveRental(LeaveShelter(s)))

\* relocation_history.append((status, current_month))
AppendHistory(s, h, status) ==
  [s EXCEPT !.agents[h].relocation_history = Append(@, <<status, s.model.current_month>>)]

\* HouseholdAgent.become_stuck
become_stuck(s, h) ==
  AppendHistory([s EXCEPT !.agents[h].relocation_status = "stuck",
                          !.agents[h].relocation_status_2 = "waiting_for_capacity"],
                h, "stuck")

\* HouseholdAgent.return_to_original
return_to_original(s, h) ==
  LET Home(s1) ==
        [s1 EXCEPT !.agents[h].coord = s1.agents[h].original_coord,
                   !.agents[h].b_id = s1.agents[h].original_b_id,
                   !.agents[h].dist_to_job = s1.agents[h].original_dist_to_job,
                   !.agents[h].dist_to_school = s1.agents[h].original_dist_to_school,
                   !.agents[h].dist_to_hospital = s1.agents[h].original_dist_to_hospital,
                   !.agents[h].relocation_status = "return_back",
                   !.agents[h].relocation_status_2 = "returned_home"]
  IN AppendHistory(Home(leave_current_location(s, h)), h, "return_back")

\* move_to_rental that leaves the unit in available_rental_units
move_to_rental_StillAvailable(s, h, rental_unit_id) ==
  LET unit_info == rental_units[rental_unit_id]
      Rented(s1) ==
        [s1 EXCEPT !.agents[h].rental_unit_id = rental_unit_id,
                   !.agents[h].coord = unit_info.coord,
                   !.agents[h].b_id = unit_info.building_id,
                   !.model.occupied_rental_units = @ \cup {rental_unit_id},
                   !.agents[h].relocation_status = "rental",
                   !.agents[h].relocation_status_2 = "renting"]
  IN update_service_distances(
       AppendHistory(Rented(leave_current_location(s, h)), h, "rental"), h)

\* HouseholdAgent.move_to_rental
move_to_rental(s, h, rental_unit_id) ==
  LET unit_info == rental_units[rental_unit_id]
      Rented(s1) ==
        [s1 EXCEPT !.agents[h].rental_unit_id = rental_unit_id,
                   !.agents[h].coord = unit_info.coord,
                   !.agents[h].b_id = unit_info.building_id,
                   !.model.occupied_rental_units = @ \cup {rental_unit_id},
                   !.model.available_rental_units = @ \ {rental_unit_id},
                   !.agents[h].relocation_status = "rental",
                   !.agents[h].relocation_status_2 = "renting"]
  IN update_service_distances(
       AppendHistory(Rented(leave_current_location(s, h)), h, "rental"), h)

\* can_move_to_relative that does not look at the relative's building
can_move_to_relative_AnyBuilding(s, h) ==
  LET r_id == s.agents[h].r_id
  IN IF r_id = None THEN FALSE
     ELSE r_id \in DOMAIN s.agents

\* HouseholdAgent.can_move_to_relative
can_move_to_relative(s, h) ==
  LET r_id == s.agents[h].r_id
  IN IF r_id = None THEN FALSE
     ELSE IF r_id \notin DOMAIN s.agents THEN FALSE
     ELSE Get(s.model.recovery_lookup, s.agents[r_id].b_id, 0) = 1

\* HouseholdAgent.move_to_relative
move_to_relative(s, h) ==
  LET Moved(s1, relative) ==
        [s1 EXCEPT !.agents[h].coord = relative.coord,
                   !.agents[h].b_id = relative.b_id,
                   !.agents[h].relocation_status = "relative",
                   !.agents[h].relocation_status_2 = "with_family"]
      Left(s1) == Moved(s1, s1.agents[s1.agents[h].r_id])
  IN update_service_distances(
       AppendHistory(Left(leave_current_location(s, h)), h, "relative"), h)

\* move_to_new_building that does not record the building as occupied
move_to_new_building_NotOccupied(s, h, building_id) ==
  LET Moved(s1) ==
        [s1 EXCEPT !.agents[h].new_building_id = building_id,
                   !.agents[h].is_in_new_building = TRUE,
                   !.agents[h].coord = <<new_buildings_info[building_id].x_coord,
                                       new_buildings_info[building_id].y_coord>>,
                   !.agents[h].b_id = building_id,
                   !.agents[h].relocation_status = "new_building",
                   !.agents[h].relocation_status_2 = "in_new_building"]
  IN update_service_distances(
       AppendHistory(Moved(leave_current_location(s, h)), h, "new_building"), h)

\* HouseholdAgent.move_to_new_building
move_to_new_building(s, h, building_id) ==
  LET Moved(s1) ==
        [s1 EXCEPT !.agents[h].new_building_id = building_id,
                   !.agents[h].is_in_new_building = TRUE,
                   !.agents[h].coord = <<new_buildings_info[building_id].x_coord,
                                       new_buildings_info[building_id].y_coord>>,
                   !.agents[h].b_id = building_id,
                   !.model.occupied_new_buildings = @ \cup {building_id},
                   !.agents[h].relocation_status = "new_building",
                   !.agents[h].relocation_status_2 = "in_new_building"]
  IN update_service_distances(
       AppendHistory(Moved(leave_current_location(s, h)), h, "new_building"), h)

\* a departure that starts the low-satisfaction streak anew
Depart_StreakReset(s, h, status_2, deterministic) ==
  LET Gone(s2) ==
        [s2 EXCEPT !.agents[h].relocation_status = "left_city",
                   !.agents[h].relocation_status_2 = status_2,
                   !.agents[h].has_left_city = TRUE,
                   !.agents[h].has_left_deterministically =
                      IF deterministic THEN TRUE ELSE @,
                   !.agents[h].months_low_satisfaction = 0,
                   !.agents[h].coord = Outside,
                   !.model.left_city_stats.total_departures = @ + 1]
  IN AppendHistory(
       Gone(leave_current_location(record_agent_evacuation(s, s.model.current_month), h)),
       h, "left_city")

\* the assignments shared by the two departures (lines 443..457, 467..479)
Depart(s, h, status_2, deterministic) ==
  LET Gone(s2) ==
        [s2 EXCEPT !.agents[h].relocation_status = "left_city",
                   !.agents[h].relocation_status_2 = status_2,
                   !.agents[h].has_left_city = TRUE,
                   !.agents[h].has_left_deterministically =
                      IF deterministic THEN TRUE ELSE @,
                   !.agents[h].coord = Outside,
                   !.model.left_city_stats.total_departures = @ + 1]
  IN AppendHistory(
       Gone(leave_current_location(record_agent_evacuation(s, s.model.current_month), h)),
       h, "left_city")

\* HouseholdAgent.leave_city_deterministically
leave_city_deterministically(s, h) ==
  IF ~can_evacuate_agent(s, s.model.current_month) THEN become_stuck(s, h)
  ELSE Depart(s, h, "prolonged_dissatisfaction", TRUE)

\* leave_city_due_to_no_shelter that never asks for an evacuation place
leave_city_due_to_no_shelter_AlwaysStuck(s, h) == become_stuck(s, h)

\* HouseholdAgent.leave_city_due_to_no_shelter
leave_city_due_to_no_shelter(s, h) ==
  IF ~can_evacuate_agent(s, s.model.current_month) THEN become_stuck(s, h)
  ELSE Depart(s, h, "no_shelter_available", FALSE)

\* go_to_shelter that leaves a household that is denied where it is
go_to_shelter_with_StayOnDenial(found, h) ==
  LET Sheltered(s1) ==
        [s1 EXCEPT !.agents[h].shelter_id = found.result,
                   !.agents[h].coord = shelter_coords_array[found.result],
                   !.agents[h].relocation_status = "shelter",
                   !.agents[h].relocation_status_2 = "in_shelter"]
  IN IF found.result = None THEN found.s
     ELSE update_service_distances(
            AppendHistory(Sheltered(leave_current_location(found.s, h)), h, "shelter"), h)

\* go_to_shelter after its query: found is what find_shelter_for_agent
\* returned and the state it left
go_to_shelter_with(found, h) ==
  LET Sheltered(s1) ==
        [s1 EXCEPT !.agents[h].shelter_id = found.result,
                   !.agents[h].coord = shelter_coords_array[found.result],
                   !.agents[h].relocation_status = "shelter",
                   !.agents[h].relocation_status_2 = "in_shelter"]
  IN IF found.result = None THEN leave_city_due_to_no_shelter(found.s, h)
     ELSE update_service_distances(
            AppendHistory(Sheltered(leave_current_location(found.s, h)), h, "shelter"), h)

\* HouseholdAgent.go_to_shelter
go_to_shelter(s, h) == go_to_shelter_with(find_shelter_for_agent(s, h), h)

\* decide_initial_move that prefers the relative's home to a rental
decide_initial_move_with_RelativeFirst(s1, h, rental) ==
  IF can_move_to_relative(s1, h) THEN move_to_relative(s1, h)
  ELSE IF rental # None THEN move_to_rental(s1, h, rental)
  ELSE go_to_shelter(s1, h)

\* decide_initial_move after its rental query (rental is None when the
\* household cannot afford one or none is found)
decide_initial_move_with(s1, h, rental) ==
  IF rental # None THEN move_to_rental(s1, h, rental)
  ELSE IF can_move_to_relative(s1, h) THEN move_to_relative(s1, h)
  ELSE go_to_shelter(s1, h)

\* HouseholdAgent.decide_initial_move
decide_initial_move(s, h, order) ==
  LET s1 == [s EXCEPT !.agents[h].has_ever_left_original = TRUE]
  IN decide_initial_move_with(s1, h,
       IF CanAffordRental(s1.agents[h])
       THEN find_available_rental_for_agent(s1, h, order) ELSE None)

\* evaluate_options that looks for a new building before a rental
evaluate_options_with_NewBuildingFirst(s, h, original_sat, rental, new_building) ==
  IF AtLeastThreshold(original_sat) THEN return_to_original(s, h)
  ELSE IF Truthy(new_building) THEN move_to_new_building(s, h, new_building)
  ELSE IF rental # None THEN move_to_rental(s, h, rental)
  ELSE s

\* evaluate_options after its queries, which change nothing
evaluate_options_with(s, h, original_sat, rental, new_building) ==
  IF AtLeastThreshold(original_sat) THEN return_to_original(s, h)
  ELSE IF rental # None THEN move_to_rental(s, h, rental)
  ELSE IF Truthy(new_building) THEN move_to_new_building(s, h, new_building)
  ELSE s

\* HouseholdAgent.evaluate_options
evaluate_options(s, h, order) ==
  evaluate_options_with(s, h,
    calc_satisfaction_fast(s, h, TRUE),
    IF CanAffordRental(s.agents[h])
    THEN find_available_rental_for_agent(s, h, order) ELSE None,
    IF DOMAIN new_buildings_info # {}
    THEN find_available_new_building(s) ELSE None)

\* HouseholdAgent.handle_low_satisfaction
handle_low_satisfaction(s, h, order) ==
  IF s.agents[h].months_low_satisfaction >= MONTHS_BEFORE_LEAVE_CITY
     /\ ~s.agents[h].has_left_deterministically
  THEN leave_city_deterministically(s, h)
  ELSE IF s.agents[h].relocation_status = "original" THEN decide_initial_move(s, h, order)
  ELSE evaluate_options(s, h, order)

\* handle_satisfied that sends every satisfied household in a temporary
\* placement home
handle_satisfied_AlwaysHome(s, h) ==
  IF s.agents[h].relocation_status \in {"shelter", "rental", "relative"}
  THEN return_to_original(s, h)
  ELSE s

\* HouseholdAgent.handle_satisfied
handle_satisfied(s, h) ==
  IF s.agents[h].relocation_status \in {"shelter", "rental", "relative"}
     /\ AtLeastThreshold(calc_satisfaction_fast(s, h, TRUE))
  THEN return_to_original(s, h)
  ELSE s

\* try_to_get_unstuck after its query: the shelter found by the first
\* query stays counted, go_to_shelter queries again
try_to_get_unstuck_with(shelter, h) ==
  IF shelter.result # None THEN go_to_shelter(shelter.s, h)
  ELSE IF can_evacuate_agent(shelter.s, shelter.s.model.current_month)
  THEN [record_agent_evacuation(shelter.s, shelter.s.model.current_month)
          EXCEPT !.agents[h].relocation_status = "left_city",
                 !.agents[h].relocation_status_2 = "evacuated_after_stuck",
                 !.agents[h].coord = Outside,
                 !.model.left_city_stats.total_departures = @ + 1]
  ELSE shelter.s

\* HouseholdAgent.try_to_get_unstuck
try_to_get_unstuck(s, h) == try_to_get_unstuck_with(find_shelter_for_agent(s, h), h)

\* return_from_outside that counts the return and goes nowhere
return_from_outside_Unplaced(s, h, order) ==
  [s EXCEPT !.agents[h].relocation_status = "return_from_outside",
            !.model.left_city_stats.total_returns = @ + 1]

\* HouseholdAgent.return_from_outside
return_from_outside(s, h, order) ==
  LET s1 == [s EXCEPT !.agents[h].relocation_status = "return_from_outside",
                      !.model.left_city_stats.total_returns = @ + 1]
  IN IF Get(s1.model.recovery_lookup, s1.agents[h].original_b_id, 0) = 1
     THEN return_to_original(s1, h)
     ELSE decide_initial_move(s1, h, order)

\* evaluate_return_from_outside that returns as soon as the original
\* building is functional
evaluate_return_from_outside_FunctionalOnly(s, h, order) ==
  IF Get(s.model.recovery_lookup, s.agents[h].original_b_id, 0) = 1
  THEN return_from_outside(s, h, order)
  ELSE s

\* HouseholdAgent.evaluate_return_from_outside (known_jobs stays empty, so
\* the job branch returns nobody)
evaluate_return_from_outside(s, h, order) ==
  IF Get(s.model.recovery_lookup, s.agents[h].original_b_id, 0) = 1
     /\ AtLeastThreshold(calc_satisfaction_fast(s, h, TRUE))
  THEN return_from_outside(s, h, order)
  ELSE s

\* step after the economic update: s1 holds the updated economy,
\* satisfaction is the value computed for the current location
step_with(s1, h, order, satisfaction) ==
  LET s2 == [s1 EXCEPT !.agents[h].satisfaction = satisfaction]
      status == s1.agents[h].relocation_status
  IN IF status = "left_city" THEN evaluate_return_from_outside(s2, h, order)
     ELSE IF status = "stuck" THEN try_to_get_unstuck(s2, h)
     ELSE IF ~AtLeastThreshold(satisfaction)
     THEN handle_low_satisfaction([s2 EXCEPT !.agents[h].months_low_satisfaction = @ + 1],
                                  h, order)
     ELSE handle_satisfied([s2 EXCEPT !.agents[h].months_low_satisfaction = 0], h)

\* the updated state and the satisfaction computed in it
step_updated(s1, h, order) == step_with(s1, h, order, calc_satisfaction_fast(s1, h, FALSE))

\* HouseholdAgent.step
step(s, h, order) == step_updated(update_economic_status(s, h), h, order)

\* ------------------------------------------ stochastic_manager.py
\* rates, weights and random draws are kept in thousandths
RateDen == 1000
TARGET_STOCHASTICITY == 100

\* two of the configured decision types, and one that is not configured
DecisionTypes == {"initial_move_choice", "leave_city_decision"}
UnknownType == "not_configured"

\* _generate_decision_weights rescales the drawn weights to sum to the
\* target: any split of the target over the types
WeightSteps == {0, 25, 50, 75, 100}
WeightSplits ==
  {w \in [DecisionTypes -> WeightSteps] : SumOver(w, DecisionTypes) = TARGET_STOCHASTICITY}

\* values random.random() can return, in [0, 1)
Draws == {0, 20, 60, 999}

\* StochasticDecisionManager.__init__
NewManager(weights) ==
  [target_cumulative |-> TARGET_STOCHASTICITY,
   decisions_made |-> 0,
   stochastic_decisions |-> 0,
   decision_weights |-> weights,
   decision_stats |-> [t \in DOMAIN weights |-> [total |-> 0, stochastic |-> 0]],
   returned |-> FALSE]

\* should_apply_stochasticity that always uses the type's weight as the
\* probability, whatever the live rate is
should_apply_stochasticity_NoBudget(m, decision_type, r) ==
  IF decision_type \notin DOMAIN m.decision_weights THEN [m EXCEPT !.returned = FALSE]
  ELSE LET m1 == [m EXCEPT !.decisions_made = @ + 1,
                           !.decision_stats[decision_type].total = @ + 1]
       IN IF r < m.decision_weights[decision_type]
          THEN [m1 EXCEPT !.stochastic_decisions = @ + 1,
                          !.decision_stats[decision_type].stochastic = @ + 1,
                          !.returned = TRUE]
          ELSE [m1 EXCEPT !.returned = FALSE]

\* StochasticDecisionManager.should_apply_stochasticity with random.random() = r;
\* returned is the value the call returns.
\* r < min(base_prob, 3 * (target - stochastic / made)), cleared of fractions
should_apply_stochasticity(m, decision_type, r) ==
  IF decision_type \notin DOMAIN m.decision_weights THEN [m EXCEPT !.returned = FALSE]
  ELSE LET made == m.decisions_made + 1
           m1 == [m EXCEPT !.decisions_made = made,
                           !.decision_stats[decision_type].total = @ + 1]
           rate_at_target ==
              m.stochastic_decisions * RateDen >= m.target_cumulative * Max(1, made)
           base_prob == m.decision_weights[decision_type]
           apply_stochasticity ==
              IF rate_at_target THEN r < 0
              ELSE /\ r < base_prob
                   /\ r * Max(1, made) <
                        3 * (m.target_cumulative * Max(1, made) - m.stochastic_decisions * RateDen)
       IN IF apply_stochasticity
          THEN [m1 EXCEPT !.stochastic_decisions = @ + 1,
                          !.decision_stats[decision_type].stochastic = @ + 1,
                          !.returned = TRUE]
          ELSE [m1 EXCEPT !.returned = FALSE]

\* reset that zeroes the two totals and keeps the per-type statistics
reset_TotalsOnly(m) ==
  [m EXCEPT !.decisions_made = 0,
            !.stochastic_decisions = 0]

\* StochasticDecisionManager.reset
reset(m) ==
  [m EXCEPT !.decisions_made = 0,
            !.stochastic_decisions = 0,
            !.decision_stats = [t \in DOMAIN @ |-> [total |-> 0, stochastic |-> 0]]]

\* ------------------------------------------------------------- actions
\* the statuses counted by _record_monthly_distributions
StatusCounts(ag, field) ==
  LET present == {ag[h][field] : h \in Households} \ {"None"}
  IN [st \in present |-> Cardinality({h \in Households : ag[h][field] = st})]

\* advance that starts the households without refreshing the caches and the
\* rental availability
BeginAdvance_NoRefresh(s, column, new_column) ==
  [s EXCEPT !.model.current_month = s.model.current_step + 1,
            !.model.current_step = @ + 1,
            !.model.recovery_lookup = column,
            !.model.new_building_lookup = new_column,
            !.model.cursor = 1]

\* DTRecoveryModel.advance up to schedule.step(): the month's columns of
\* the recovery tables are the input
BeginAdvance(s, column, new_column) ==
  LET s1 == [s EXCEPT !.model.current_month = s.model.current_step + 1,
                      !.model.current_step = @ + 1,
                      !.model.recovery_lookup = column,
                      !.model.new_building_lookup = new_column,
                      !.model.cursor = 1]
  IN update_available_rentals(update_functionality_caches(s1))

\* schedule.step() that passes over the households that left the city
StepNext_SkipLeftCity(s, order) ==
  IF s.agents[s.model.cursor].relocation_status = "left_city"
  THEN [s EXCEPT !.model.cursor = @ + 1]
  ELSE [step(s, s.model.cursor, order) EXCEPT !.model.cursor = @ + 1]

\* schedule.step(): the next household in creation order steps
StepNext(s, order) == [step(s, s.model.cursor, order) EXCEPT !.model.cursor = @ + 1]

\* the row _collect_step_data appends for one household
StepRecord(s, h) ==
  [H_ID |-> h,
   Step |-> s.model.current_step,
   Month |-> s.model.current_month,
   Relocation_Status |-> s.agents[h].relocation_status]

\* _collect_step_data that has no row for a household outside the city
collect_step_data_PresentOnly(s) ==
  LET rows == [h \in 1..NumHouseholds |-> StepRecord(s, h)]
      present(r) == r.Relocation_Status # "left_city"
  IN [s EXCEPT !.model.longitudinal_data = @ \o SelectSeq(rows, present)]

\* DTRecoveryModel._collect_step_data: one row per scheduled household, in
\* the scheduler's order, unless collection is switched off
collect_step_data(s) ==
  IF ~s.model.collect_longitudinal THEN s
  ELSE [s EXCEPT !.model.longitudinal_data =
                    @ \o [h \in 1..NumHouseholds |-> StepRecord(s, h)]]

\* DTRecoveryModel._record_monthly_distributions
record_monthly_distributions(s) ==
  LET md == s.model.monthly_distributions
      month == s.model.current_month
      entry == [relocation_status |-> StatusCounts(s.agents, "relocation_status"),
                relocation_status_2 |-> StatusCounts(s.agents, "relocation_status_2")]
  IN [s EXCEPT !.model.monthly_distributions =
                  [m \in DOMAIN md \cup {month} |-> IF m = month THEN entry ELSE md[m]]]

\* DTRecoveryModel.advance after schedule.step(): _collect_step_data, then
\* _record_monthly_distributions
EndAdvance(s) ==
  [record_monthly_distributions(collect_step_data(s)) EXCEPT !.model.cursor = 0]

RecoveryColumns == [RecoveryBuildings -> {0, 1}]
NewBuildingColumns == [DOMAIN new_buildings_info -> {0, 1}]

\* the run's fields after a call
Becomes(s1) == model' = s1.model /\ agents' = s1.agents

Init ==
  /\ model = InitialState.model
  /\ agents = InitialState.agents
  /\ stochastic_manager = NewManager([t \in DecisionTypes |-> TARGET_STOCHASTICITY \div 2])
  /\ replay = InitialState

AdvanceBegin ==
  /\ model.cursor = 0
  /\ model.current_step < MaxSteps
  /\ \E column \in RecoveryColumns, new_column \in NewBuildingColumns :
       Becomes(BeginAdvance(State, column, new_column))
  /\ UNCHANGED <<stochastic_manager, replay>>

AgentStep ==
  /\ model.cursor \in Households
  /\ \E order \in IterationOrders(model.available_rental_units) :
       Becomes(StepNext(State, order))
  /\ UNCHANGED <<stochastic_manager, replay>>

AdvanceEnd ==
  /\ model.cursor = NumHouseholds + 1
  /\ Becomes(EndAdvance(State))
  /\ UNCHANGED <<stochastic_manager, replay>>

Next == AdvanceBegin \/ AgentStep \/ AdvanceEnd

Spec == Init /\ [][Next]_vars

\* ------------------------------------------------------------ properties
PlacementCount(a) ==
  (IF a.shelter_id # None THEN 1 ELSE 0) + (IF a.rental_unit_id # None THEN 1 ELSE 0)
  + (IF a.new_building_id # None THEN 1 ELSE 0)

\* C1: in every reachable state, also between two households' steps, each
\* household has at most one of shelter_id, rental_unit_id, new_building_id set
C1_AtMostOnePlacement == \A h \in Households : PlacementCount(agents[h]) <= 1

\* C2: with the non-decreasing activation schedule, the engine's counter
\* current_shelter_occupancy and the sum of the slots' shelter_occupancy
\* never exceed floor(total_shelter_capacity * activation(current_step))
C2_ShelterWithinActiveCapacity ==
  /\ model.current_shelter_occupancy <= get_active_shelter_capacity(State)
  /\ SumOver(model.shelter_occupancy, DOMAIN model.shelter_occupancy)
       <= get_active_shelter_capacity(State)

\* the active capacity is exhausted below the total and a household was
\* turned away from the shelters
C2_Witness ==
  /\ model.current_step >= 1
  /\ model.current_shelter_occupancy = get_active_shelter_capacity(State)
  /\ get_active_shelter_capacity(State) < model.total_shelter_capacity
  /\ \E h \in Households : agents[h].relocation_status = "shelter"
  /\ \E h \in Households : agents[h].relocation_status_2 = "no_shelter_available"

WithinLimit(count, limit) == limit.inf \/ count <= limit.cap

HeldRentalUnits == {agents[h].rental_unit_id : h \in Households} \ {None}

\* C4: no two households have the same rental_unit_id, and a unit some
\* household holds is not in available_rental_units, so the rental search
\* returns it to nobody
C4_RentalNeverDoubleAssigned ==
  /\ \A h1, h2 \in Households :
       (h1 # h2 /\ agents[h1].rental_unit_id # None)
       => agents[h1].rental_unit_id # agents[h2].rental_unit_id
  /\ HeldRentalUnits \cap model.available_rental_units = {}
  /\ \A h \in Households : \A order \in IterationOrders(model.available_rental_units) :
       find_available_rental_for_agent(State, h, order) \notin HeldRentalUnits

\* two households hold rental units at the same time
C4_Witness ==
  \E h1, h2 \in Households :
    /\ h1 # h2
    /\ agents[h1].rental_unit_id # None
    /\ agents[h2].rental_unit_id # None

HeldNewBuildings == {agents[h].new_building_id : h \in Households} \ {None}

\* C5: no two households have the same new_building_id, and
\* find_available_new_building never returns a building a household holds
C5_NewBuildingSingleOccupancy ==
  /\ \A h1, h2 \in Households :
       (h1 # h2 /\ agents[h1].new_building_id # None)
       => agents[h1].new_building_id # agents[h2].new_building_id
  /\ find_available_new_building(State) \notin HeldNewBuildings

\* a household holds a new building that is functional this month while
\* another household has looked for a better place from a temporary one
C5_Witness ==
  \E h1, h2 \in Households :
    /\ h1 # h2
    /\ agents[h1].new_building_id # None
    /\ Get(model.new_building_lookup, agents[h1].new_building_id, 0) = 1
    /\ agents[h2].relocation_status \in {"shelter", "relative", "rental"}
    /\ agents[h2].months_low_satisfaction > 0
    /\ model.cursor > h2

\* C6: the satisfaction a household's step computes lies in [0, 1] and is 0
\* when the building it evaluates is non-functional this month, or the
\* household's employment is 0, or its job building is non-functional this
\* month; the same holds of the value for either location in every state
C6_SatisfactionRangeAndZero ==
  /\ [](\A h \in Households : \A use_original_location \in BOOLEAN :
          LET sat == calc_satisfaction_fast(State, h, use_original_location)
              b_id == IF use_original_location THEN agents[h].original_b_id
                      ELSE agents[h].b_id
          IN /\ sat \in 0..SatDen
             /\ (\/ Get(model.recovery_lookup, b_id, 1) = 0
                 \/ agents[h].employment = 0
                 \/ Get(model.recovery_lookup, agents[h].job_id, 1) = 0) => sat = 0)
  /\ [][model.cursor \in Households =>
          LET h == model.cursor
              sat == agents'[h].satisfaction
          IN /\ sat \in 0..SatDen
             /\ (\/ Get(model.recovery_lookup, agents[h].b_id, 1) = 0
                 \/ agents'[h].employment = 0
                 \/ Get(model.recovery_lookup, agents[h].job_id, 1) = 0) => sat = 0]_vars

\* a household stepped in a building rented in an earlier month that is down while its original
\* building and its job are up, and got 0; another household computed a
\* satisfaction strictly between 0 and 1
C6_Witness ==
  /\ \E h \in Households :
       /\ model.cursor > h
       /\ agents[h].relocation_status = "rental"
       /\ agents[h].b_id # agents[h].original_b_id
       /\ agents[h].relocation_history[Len(agents[h].relocation_history)][2]
            < model.current_month
       /\ Get(model.recovery_lookup, agents[h].b_id, 1) = 0
       /\ Get(model.recovery_lookup, agents[h].original_b_id, 1) = 1
       /\ Get(model.recovery_lookup, agents[h].job_id, 1) = 1
       /\ agents[h].employment = 1
       /\ agents[h].satisfaction = 0
  /\ \E h \in Households :
       /\ model.cursor > h
       /\ agents[h].satisfaction > 0
       /\ agents[h].satisfaction < SatDen

\* ----------------------------------------- the controller on its own
InitStochastic ==
  /\ model = InitialState.model
  /\ agents = InitialState.agents
  /\ replay = InitialState
  /\ \E weights \in WeightSplits : stochastic_manager = NewManager(weights)

Decide ==
  /\ stochastic_manager.decisions_made < MaxDecisions
  /\ \E decision_type \in DecisionTypes \cup {UnknownType}, r \in Draws :
       stochastic_manager' = should_apply_stochasticity(stochastic_manager, decision_type, r)
  /\ UNCHANGED <<model, agents, replay>>

NextStochastic == Decide

SpecStochastic == InitStochastic /\ [][NextStochastic]_vars

\* C8: after any sequence of calls, stochastic_decisions <=
\* target_cumulative * decisions_made + 1
C8_RateOvershootAtMostOne ==
  stochastic_manager.stochastic_decisions * RateDen
    <= stochastic_manager.target_cumulative * stochastic_manager.decisions_made + RateDen

\* a second decision was randomized, so the rate is above the target again
C8_Witness ==
  /\ stochastic_manager.stochastic_decisions >= 2
  /\ stochastic_manager.stochastic_decisions * RateDen
       > stochastic_manager.target_cumulative * stochastic_manager.decisions_made

\* C9: a call for a known type that finds stochastic_decisions /
\* decisions_made (the call counted) at or above the target returns False
\* and leaves stochastic_decisions and the stochastic counters unchanged
C9_NoRandomizationAtTarget ==
  [][(/\ stochastic_manager'.decisions_made = stochastic_manager.decisions_made + 1
      /\ stochastic_manager.stochastic_decisions * RateDen
           >= stochastic_manager.target_cumulative * stochastic_manager'.decisions_made)
     => /\ stochastic_manager'.returned = FALSE
        /\ stochastic_manager'.stochastic_decisions = stochastic_manager.stochastic_decisions
        /\ \A t \in DecisionTypes :
             stochastic_manager'.decision_stats[t].stochastic
               = stochastic_manager.decision_stats[t].stochastic]_vars

\* calls were refused while the rate was at or above the target, with a
\* weight and a draw that would otherwise have randomized the decision
C9_Witness ==
  /\ stochastic_manager.stochastic_decisions = 1
  /\ stochastic_manager.decisions_made = 10
  /\ stochastic_manager.returned = FALSE
  /\ \A t \in DecisionTypes : stochastic_manager.decision_weights[t] > 0

\* --------------------------------------------- two runs of the same inputs
\* both runs get the same month's columns and step the same household; each
\* iterates its set of available units in its own order
ReplayAdvanceBegin ==
  /\ model.cursor = 0
  /\ model.current_step < MaxSteps
  /\ \E column \in RecoveryColumns, new_column \in NewBuildingColumns :
       /\ Becomes(BeginAdvance(State, column, new_column))
       /\ replay' = BeginAdvance(replay, column, new_column)
  /\ UNCHANGED stochastic_manager

ReplayAgentStep ==
  /\ model.cursor \in Households
  /\ \E order \in IterationOrders(model.available_rental_units) :
       Becomes(StepNext(State, order))
  /\ \E order \in IterationOrders(replay.model.available_rental_units) :
       replay' = StepNext(replay, order)
  /\ UNCHANGED stochastic_manager

ReplayAdvanceEnd ==
  /\ model.cursor = NumHouseholds + 1
  /\ Becomes(EndAdvance(State))
  /\ replay' = EndAdvance(replay)
  /\ UNCHANGED stochastic_manager

NextReplay == ReplayAdvanceBegin \/ ReplayAgentStep \/ ReplayAdvanceEnd

SpecReplay == Init /\ [][NextReplay]_vars

\* C10: two runs with the same inputs and the same household order record
\* the same status distributions for every month
C10_SameDistributions ==
  model.monthly_distributions = replay.model.monthly_distributions

\* ------------------------------------------------ scenarios (spec section 8)
\* households sheltered this month straight from their original home
ShelteredThisMonth ==
  {h \in Households :
     /\ agents[h].relocation_status = "shelter"
     /\ agents[h].relocation_history = << <<"shelter", model.current_month>> >>}

\* the shelters were empty when the month began and only households from
\* 'original' have been sheltered since
ShelterPoolFresh ==
  /\ model.current_shelter_occupancy = Cardinality(ShelteredThisMonth)
  /\ SumOver(model.shelter_occupancy, DOMAIN model.shelter_occupancy)
       = Cardinality(ShelteredThisMonth)

\* household h, about to step, is at 'original' in a non-functional
\* building, below the forced-departure streak, with no rental option and
\* no relative option: its step requests a shelter
ShelterRequest(h) ==
  /\ model.cursor = h
  /\ agents[h].relocation_status = "original"
  /\ Get(model.recovery_lookup, agents[h].b_id, 1) = 0
  /\ agents[h].months_low_satisfaction + 1 < MONTHS_BEFORE_LEAVE_CITY
  /\ (~CanAffordRental(agents'[h]) \/ model.available_rental_units = {})
  /\ ~can_move_to_relative(State, h)

\* a place can still be granted: fewer than the active capacity are
\* sheltered and a slot has room
ShelterGrantable ==
  /\ Cardinality(ShelteredThisMonth) < get_active_shelter_capacity(State)
  /\ \E i \in DOMAIN model.shelter_occupancy :
       model.shelter_occupancy[i] < model.shelter_capacity[i]

\* C11 as stated: with the shelters empty at the start of the step, the
\* first c requesters from 'original' (c the active capacity) end the step
\* in 'shelter' and every later requester ends it in 'stuck'
C11_LaterRequestersStuck ==
  [][\A h \in Households :
       (ShelterRequest(h) /\ ShelterPoolFresh)
       => IF ShelterGrantable THEN agents'[h].relocation_status = "shelter"
          ELSE agents'[h].relocation_status = "stuck"]_vars

\* C11 amended: the first c requesters end the step in 'shelter'; a later
\* requester ends it in 'left_city' (no_shelter_available) while the
\* month's evacuation quota admits it, and in 'stuck' once the quota is used up
C11_LaterRequestersLeaveOrStuck ==
  [][\A h \in Households :
       (ShelterRequest(h) /\ ShelterPoolFresh)
       => IF ShelterGrantable THEN agents'[h].relocation_status = "shelter"
          ELSE IF WithinLimit(Get(model.monthly_evacuations, model.current_month, 0) + 1,
                              get_evacuation_limit(model.current_step))
          THEN /\ agents'[h].relocation_status = "left_city"
               /\ agents'[h].relocation_status_2 = "no_shelter_available"
          ELSE agents'[h].relocation_status = "stuck"]_vars

\* the active capacity was granted to requesters from 'original', a later
\* requester left the city and one after it became stuck, all in this month
C11_Witness ==
  /\ ShelterPoolFresh
  /\ Cardinality(ShelteredThisMonth) = get_active_shelter_capacity(State)
  /\ \E h1, h2 \in Households :
       /\ agents[h1].relocation_status_2 = "no_shelter_available"
       /\ agents[h1].relocation_history = << <<"left_city", model.current_month>> >>
       /\ agents[h2].relocation_status = "stuck"
       /\ agents[h2].relocation_history = << <<"stuck", model.current_month>> >>
       /\ agents[h2].months_low_satisfaction < MONTHS_BEFORE_LEAVE_CITY

\* ------------------------------------------------- long runs
\* months in which the whole area is down or the whole area is up
AreaColumns == {[b \in RecoveryBuildings |-> v] : v \in {0, 1}}

LongAdvanceBegin ==
  /\ model.cursor = 0
  /\ model.current_step < MaxLongSteps
  /\ \E column \in AreaColumns, new_column \in NewBuildingColumns :
       Becomes(BeginAdvance(State, column, new_column))
  /\ UNCHANGED <<stochastic_manager, replay>>

NextLong == LongAdvanceBegin \/ AgentStep \/ AdvanceEnd

SpecLong == Init /\ [][NextLong]_vars

\* household h, about to step, is handled by the normal branch and its
\* step computes a satisfaction below the threshold
LowNormalStep(h) ==
  /\ model.cursor = h
  /\ agents[h].relocation_status \notin {"stuck", "left_city"}
  /\ ~AtLeastThreshold(agents'[h].satisfaction)

\* C12: with forced-departure threshold k, the k-th consecutive step of the
\* normal branch with satisfaction below the threshold ends in 'left_city'
\* if the month's evacuation quota admits a departure and in 'stuck' if it
\* does not; a step with a shorter streak is not a deterministic departure
C12_ForcedDepartureOnKthStep ==
  [][\A h \in Households :
       LowNormalStep(h)
       => /\ agents'[h].months_low_satisfaction = MONTHS_BEFORE_LEAVE_CITY
             => IF WithinLimit(Get(model.monthly_evacuations, model.current_month, 0) + 1,
                               get_evacuation_limit(model.current_step))
                THEN /\ agents'[h].relocation_status = "left_city"
                     /\ agents'[h].relocation_status_2 = "prolonged_dissatisfaction"
                ELSE agents'[h].relocation_status = "stuck"
          /\ agents'[h].months_low_satisfaction < MONTHS_BEFORE_LEAVE_CITY
             => /\ agents'[h].relocation_status_2 # "prolonged_dissatisfaction"
                /\ agents'[h].has_left_deterministically
                     = agents[h].has_left_deterministically]_vars

\* C13: a household at 'original' whose step computes a satisfaction below
\* the threshold, with economic score >= the rental threshold and streak
\* below the forced-departure threshold, while a rental unit is available
\* at its turn, ends the step in 'rental' holding a unit that was
\* available; the unit is occupied and no longer available, and the
\* household's b_id and coordinates are the unit's
C13_OriginalToRental ==
  [][\A h \in Households :
       (/\ model.cursor = h
        /\ agents[h].relocation_status = "original"
        /\ ~AtLeastThreshold(agents'[h].satisfaction)
        /\ CanAffordRental(agents'[h])
        /\ agents'[h].months_low_satisfaction < MONTHS_BEFORE_LEAVE_CITY
        /\ model.available_rental_units # {})
       => /\ agents'[h].relocation_status = "rental"
          /\ agents'[h].rental_unit_id \in model.available_rental_units
          /\ agents'[h].rental_unit_id \in model'.occupied_rental_units
          /\ agents'[h].rental_unit_id \notin model'.available_rental_units
          /\ agents'[h].b_id = rental_units[agents'[h].rental_unit_id].building_id
          /\ agents'[h].coord = rental_units[agents'[h].rental_unit_id].coord]_vars

\* a household that could also have moved to its relative's functional
\* home has rented a unit in another building straight from 'original'
C13_Witness ==
  \E h \in Households :
    /\ model.cursor > h
    /\ agents[h].relocation_status = "rental"
    /\ agents[h].relocation_history = << <<"rental", model.current_month>> >>
    /\ agents[h].rental_unit_id \in model.occupied_rental_units
    /\ agents[h].b_id # agents[h].original_b_id
    /\ agents[h].months_low_satisfaction = 1
    /\ can_move_to_relative(State, h)

\* the step of household h ran: its economy and its satisfaction are the
\* ones the first two statements of step compute in the current state
StepRan(h) ==
  /\ agents'[h].employment = update_economic_status(State, h).agents[h].employment
  /\ agents'[h].economic_score = update_economic_status(State, h).agents[h].economic_score
  /\ agents'[h].satisfaction
       = calc_satisfaction_fast(update_economic_status(State, h), h, FALSE)

\* C14: in every advance each household created at initialization steps
\* exactly once, in creation order, whatever its status: the advance
\* starts with the first household, the step of household h is followed by
\* that of h + 1 and changes no other household, and the month is recorded
\* only after the last household has stepped
C14_EachHouseholdStepsOnceInOrder ==
  /\ []((DOMAIN agents = Households) /\ (model.cursor \in 0..(NumHouseholds + 1)))
  /\ [][
         /\ model.cursor = 0
            => /\ model'.cursor = 1
               /\ model'.current_step = model.current_step + 1
               /\ agents' = agents
         /\ model.cursor \in Households
            => /\ model'.cursor = model.cursor + 1
               /\ model'.current_step = model.current_step
               /\ StepRan(model.cursor)
               /\ \A h \in Households \ {model.cursor} : agents'[h] = agents[h]
         /\ model.cursor = NumHouseholds + 1
            => /\ model'.cursor = 0
               /\ model'.current_step = model.current_step
               /\ agents' = agents
               /\ model.current_month \in DOMAIN model'.monthly_distributions]_vars

\* all households have stepped this month, among them one that had left
\* the city in an earlier month and one that was stuck when the month began
C14_Witness ==
  /\ model.cursor = NumHouseholds + 1
  /\ \E h1, h2 \in Households :
       /\ agents[h1].relocation_status = "left_city"
       /\ agents[h1].relocation_history[Len(agents[h1].relocation_history)][2]
            < model.current_month
       /\ Len(agents[h2].relocation_history) >= 1
       /\ \E i \in DOMAIN agents[h2].relocation_history :
            /\ agents[h2].relocation_history[i][1] = "stuck"
            /\ agents[h2].relocation_history[i][2] < model.current_month
            /\ i = Len(agents[h2].relocation_history)
                 \/ agents[h2].relocation_history[i + 1][2] = model.current_month

\* ------------------------------------- steps under the shipped configuration
\* config.MONTHS_BEFORE_LEAVE_CITY as shipped
REFERENCE_MONTHS_BEFORE_LEAVE_CITY == None

\* Python's a >= b for an int a raises TypeError when b is None
GeRaises(a, b) == b = None

\* the state in which step evaluates the test of handle_low_satisfaction
\* (economy updated, satisfaction stored, streak counted)
AtHandleLowSatisfaction(s, h) ==
  LET s1 == update_economic_status(s, h)
  IN [s1 EXCEPT !.agents[h].satisfaction = calc_satisfaction_fast(s1, h, FALSE),
                !.agents[h].months_low_satisfaction = @ + 1]

\* step reaches handle_low_satisfaction and its comparison of the streak
\* with the threshold raises
step_raises(s, h, threshold) ==
  /\ s.agents[h].relocation_status \notin {"left_city", "stuck"}
  /\ ~AtLeastThreshold(AtHandleLowSatisfaction(s, h).agents[h].satisfaction)
  /\ GeRaises(AtHandleLowSatisfaction(s, h).agents[h].months_low_satisfaction, threshold)

\* C15: no household step raises under the shipped configuration, in
\* which MONTHS_BEFORE_LEAVE_CITY is None, also when the household's
\* satisfaction is below the threshold (a step raises nothing else: its
\* other lookups use dict.get or keys that exist)
C15_NoStepRaises ==
  \A h \in Households :
    model.cursor = h => ~step_raises(State, h, REFERENCE_MONTHS_BEFORE_LEAVE_CITY)

\* ------------------------------------------------- the pool of rental units
\* C16: in every state, also between two households' steps of a month, a
\* rental unit is available iff it is not occupied and its building is
\* functional in the current month
C16_AvailableIffFreeAndFunctional ==
  \A u \in DOMAIN rental_units :
    u \in model.available_rental_units
      <=> /\ u \notin model.occupied_rental_units
          /\ Get(model.recovery_lookup, rental_units[u].building_id, 0) = 1

\* ------------------------------------------------------ the pool of shelters
\* C17: in every state the aggregate occupancy that admission tests and the
\* summary reports equals the number of households that hold a shelter slot
\* (a slot is given back on every transition out of the shelter)
C17_OccupancyCountsHolders ==
  model.current_shelter_occupancy =
    Cardinality({h \in Households : agents[h].relocation_status = "shelter"})

\* ------------------------------------------------------ the relocation history
\* config.TOTAL_SHELTER_UNITS is a setting: the runs with the pool of the
\* bounds and with a smaller one, in which the first month opens no shelter
ShelterUnitCounts == {TOTAL_SHELTER_UNITS - 2, TOTAL_SHELTER_UNITS}

InitPools ==
  /\ \E units \in ShelterUnitCounts :
       model = [InitialState.model EXCEPT
                  !.total_shelter_capacity = units * DEFAULT_SHELTER_CAPACITY]
  /\ agents = InitialState.agents
  /\ stochastic_manager = NewManager([t \in DecisionTypes |-> TARGET_STOCHASTICITY \div 2])
  /\ replay = InitialState

SpecPools == InitPools /\ [][NextLong]_vars

\* C18: whenever the step of a household ends with another relocation_status
\* than it started with, the last entry of its relocation_history is the new
\* status with the current month (also from stuck to left_city by evacuation
\* and from left_city to return_back)
C18_StatusChangeAppendsHistory ==
  [][\A h \in Households :
        agents'[h].relocation_status # agents[h].relocation_status
          => /\ agents'[h].relocation_history # << >>
             /\ agents'[h].relocation_history[Len(agents'[h].relocation_history)]
                  = <<agents'[h].relocation_status, model.current_month>>]_vars

\* ------------------------------------------- the construction of the controller
\* settings of config.DECISION_WEIGHT_RANGES, in thousandths: every type
\* gets one of these (low, high) pairs; the shipped setting gives (0, 0) to all
WeightRanges == {<<0, 0>>, <<10, 10>>, <<0, 40>>, <<20, 60>>, <<50, 100>>}
ConfiguredWeightRanges == [DecisionTypes -> WeightRanges]

\* values np.random.uniform(low, high) can return: low itself, and values
\* of [low, high) when the interval is not empty
Uniform(range) ==
  {v \in {range[1], (range[1] + range[2]) \div 2, range[2] - 1} : v >= range[1]}

\* StochasticDecisionManager._generate_decision_weights for the drawn
\* random_weights: the weight of a type is weights[t] / weight_den, that is
\* random_weights[t] * (target / total_weight); the division by a
\* total_weight of 0.0 raises
generate_decision_weights(target_cumulative, random_weights) ==
  LET total_weight == SumOver(random_weights, DOMAIN random_weights)
  IN IF total_weight = 0
     THEN [raised |-> "ZeroDivisionError", weights |-> << >>, weight_den |-> 1]
     ELSE [raised |-> "None",
           weights |-> [t \in DOMAIN random_weights |-> random_weights[t] * target_cumulative],
           weight_den |-> total_weight]

\* the controller before DTRecoveryModel.__init__ constructs it
NoManager ==
  [constructed |-> FALSE, raised |-> "None", weight_ranges |-> << >>,
   target_cumulative |-> TARGET_STOCHASTICITY,
   decision_weights |-> << >>, weight_den |-> 1]

\* StochasticDecisionManager.__init__ under the setting weight_ranges
Construct(weight_ranges, random_weights) ==
  LET generated == generate_decision_weights(TARGET_STOCHASTICITY, random_weights)
  IN [constructed |-> generated.raised = "None", raised |-> generated.raised,
      weight_ranges |-> weight_ranges,
      target_cumulative |-> TARGET_STOCHASTICITY,
      decision_weights |-> generated.weights, weight_den |-> generated.weight_den]

InitWeights ==
  /\ model = InitialState.model
  /\ agents = InitialState.agents
  /\ replay = InitialState
  /\ stochastic_manager = NoManager

ConstructManager ==
  /\ ~stochastic_manager.constructed
  /\ stochastic_manager.raised = "None"
  /\ \E weight_ranges \in ConfiguredWeightRanges :
       \E random_weights \in [DecisionTypes -> UNION {Uniform(r) : r \in WeightRanges}] :
         /\ \A t \in DecisionTypes : random_weights[t] \in Uniform(weight_ranges[t])
         /\ stochastic_manager' = Construct(weight_ranges, random_weights)
  /\ UNCHANGED <<model, agents, replay>>

NextWeights == ConstructManager

SpecWeights == InitWeights /\ [][NextWeights]_vars

\* C19: constructing the controller does not fail, and the weights it
\* leaves are non-negative and sum to the target rate, for every setting of
\* the weight ranges, the shipped one with all ranges (0, 0) included
C19_WeightsSumToTarget ==
  stochastic_manager # NoManager
    => /\ stochastic_manager.raised = "None"
       /\ \A t \in DecisionTypes : stochastic_manager.decision_weights[t] >= 0
       /\ SumOver(stochastic_manager.decision_weights, DecisionTypes)
            = stochastic_manager.target_cumulative * stochastic_manager.weight_den

\* ------------------------------------------------------ the stuck household
\* C20: the step of a household that is stuck ends in 'shelter' whenever a
\* slot can be granted at its turn (aggregate occupancy below the active
\* capacity and a slot with room), also when one unit of the aggregate
\* capacity is left; otherwise in 'left_city' if the month's evacuations
\* are below the quota; otherwise the household remains 'stuck'
C20_StuckGetsGrantableSlot ==
  [][\A h \in Households :
        (model.cursor = h /\ agents[h].relocation_status = "stuck")
          => agents'[h].relocation_status =
               IF find_shelter_for_agent(State, h).result # None THEN "shelter"
               ELSE IF can_evacuate_agent(State, model.current_month) THEN "left_city"
               ELSE "stuck"]_vars

\* --------------------------------------------- the forced departure, repeated
\* C21: every step of the normal branch that computes a satisfaction below
\* the threshold with a streak at or above the forced-departure threshold
\* ends in 'left_city' or 'stuck', also for a household that left
\* deterministically before and returned
C21_LongStreakAlwaysDeparts ==
  [][\A h \in Households :
        (LowNormalStep(h) /\ agents[h].months_low_satisfaction + 1 >= MONTHS_BEFORE_LEAVE_CITY)
          => agents'[h].relocation_status \in {"left_city", "stuck"}]_vars

\* ------------------------------------------------- the initial move, denied
\* household h, about to step from 'original' with a satisfaction below the
\* threshold and a streak below the forced-departure threshold, gets no
\* rental, has no relative to go to and is denied a shelter
DeniedEverything(h) ==
  /\ model.cursor = h
  /\ agents[h].relocation_status = "original"
  /\ ~AtLeastThreshold(agents'[h].satisfaction)
  /\ agents[h].months_low_satisfaction + 1 < MONTHS_BEFORE_LEAVE_CITY
  /\ (~CanAffordRental(agents'[h]) \/ model.available_rental_units = {})
  /\ ~can_move_to_relative(State, h)
  /\ find_shelter_for_agent(State, h).result = None

\* C22: a household at 'original' with low satisfaction that gets neither a
\* rental nor a relative's home and is denied shelter ends the step in
\* 'left_city' when the month's evacuation quota admits it and in 'stuck'
\* only when the quota denies it; it never stays in 'original'
C22_DeniedLeavesOrStuck ==
  [][\A h \in Households :
        DeniedEverything(h)
          => /\ agents'[h].relocation_status # "original"
             /\ agents'[h].relocation_status =
                  IF can_evacuate_agent(State, model.current_month)
                  THEN "left_city" ELSE "stuck"
             /\ can_evacuate_agent(State, model.current_month)
                  => /\ agents'[h].relocation_status_2 = "no_shelter_available"
                     /\ Get(model'.monthly_evacuations, model.current_month, 0)
                          = Get(model.monthly_evacuations, model.current_month, 0) + 1]_vars

\* this month one household, denied a shelter, took the last evacuation
\* place and a later one, denied both, became stuck
C22_Witness ==
  \E h1, h2 \in Households :
    /\ h1 < h2 /\ model.cursor > h2
    /\ agents[h1].relocation_status = "left_city"
    /\ agents[h1].relocation_status_2 = "no_shelter_available"
    /\ agents[h1].has_ever_left_original
    /\ agents[h1].relocation_history[Len(agents[h1].relocation_history)]
         = <<"left_city", model.current_month>>
    /\ agents[h2].relocation_status = "stuck"
    /\ agents[h2].has_ever_left_original
    /\ agents[h2].relocation_history[Len(agents[h2].relocation_history)]
         = <<"stuck", model.current_month>>
    /\ ~can_evacuate_agent(State, model.current_month)

\* ------------------------------------------------- the return from outside
\* the original home of h is viable at its turn: the building is functional
\* this month and the satisfaction computed for the original location,
\* with the economy of this month, reaches the threshold
OriginalViable(h) ==
  /\ Get(model.recovery_lookup, agents[h].original_b_id, 0) = 1
  /\ AtLeastThreshold(calc_satisfaction_fast(update_economic_status(State, h), h, TRUE))

\* C23: the step of a household in 'left_city' whose original home is
\* viable ends in 'return_back' with b_id, coordinates, school and hospital
\* ids and the service distances at their original values; otherwise the
\* household stays in 'left_city' and no pool or counter changes
C23_ReturnFromOutside ==
  [][\A h \in Households :
        (model.cursor = h /\ agents[h].relocation_status = "left_city")
          => IF OriginalViable(h)
             THEN /\ agents'[h].relocation_status = "return_back"
                  /\ agents'[h].b_id = agents[h].original_b_id
                  /\ agents'[h].coord = agents[h].original_coord
                  /\ agents'[h].school_id = NewAgent(h).school_id
                  /\ agents'[h].hospital_id = NewAgent(h).hospital_id
                  /\ agents'[h].dist_to_school = agents[h].original_dist_to_school
                  /\ agents'[h].dist_to_hospital = agents[h].original_dist_to_hospital
                  /\ agents'[h].dist_to_job = agents[h].original_dist_to_job
             ELSE /\ agents'[h].relocation_status = "left_city"
                  /\ agents'[h].relocation_status_2 = agents[h].relocation_status_2
                  /\ agents'[h].coord = agents[h].coord
                  /\ agents'[h].relocation_history = agents[h].relocation_history
                  /\ model' = [model EXCEPT !.cursor = @ + 1]]_vars

\* this month one household came back from outside to its original home
\* and another, whose home is functional but not viable, stayed outside
C23_Witness ==
  \E h1, h2 \in Households :
    /\ model.cursor > h1 /\ model.cursor > h2
    /\ agents[h1].relocation_status = "return_back"
    /\ agents[h1].coord = agents[h1].original_coord
    /\ Len(agents[h1].relocation_history) >= 2
    /\ agents[h1].relocation_history[Len(agents[h1].relocation_history)]
         = <<"return_back", model.current_month>>
    /\ agents[h1].relocation_history[Len(agents[h1].relocation_history) - 1][1] = "left_city"
    /\ model.left_city_stats.total_returns >= 1
    /\ agents[h2].relocation_status = "left_city"
    /\ agents[h2].coord = Outside
    /\ Get(model.recovery_lookup, agents[h2].original_b_id, 0) = 1
    /\ agents[h2].relocation_history[Len(agents[h2].relocation_history)][2]
         < model.current_month

\* ------------------------------------------------- the satisfied household
\* the step of h changes nothing but its economy and its satisfaction
\* (and the streak, which a satisfied step resets)
OnlyEvaluated(h) ==
  /\ agents'[h].relocation_status = agents[h].relocation_status
  /\ agents'[h].relocation_status_2 = agents[h].relocation_status_2
  /\ agents'[h].shelter_id = agents[h].shelter_id
  /\ agents'[h].rental_unit_id = agents[h].rental_unit_id
  /\ agents'[h].new_building_id = agents[h].new_building_id
  /\ agents'[h].coord = agents[h].coord
  /\ agents'[h].b_id = agents[h].b_id
  /\ agents'[h].relocation_history = agents[h].relocation_history
  /\ model' = [model EXCEPT !.cursor = @ + 1]

\* household h, about to step, is handled by the normal branch and its
\* step computes a satisfaction at or above the threshold
SatisfiedNormalStep(h) ==
  /\ model.cursor = h
  /\ agents[h].relocation_status \notin {"stuck", "left_city"}
  /\ AtLeastThreshold(agents'[h].satisfaction)

InitialMove(h) ==
  /\ model.cursor = h
  /\ agents[h].relocation_status = "original"
  /\ ~AtLeastThreshold(agents'[h].satisfaction)
  /\ agents[h].months_low_satisfaction + 1 < MONTHS_BEFORE_LEAVE_CITY

\* the rental query of the initial move of h finds a unit
RentalObtainable(h) ==
  CanAffordRental(agents'[h]) /\ model.available_rental_units # {}

EvaluatesOptions(h) ==
  /\ LowNormalStep(h)
  /\ agents[h].relocation_status # "original"
  /\ \/ agents[h].months_low_satisfaction + 1 < MONTHS_BEFORE_LEAVE_CITY
     \/ agents[h].has_left_deterministically

\* C26: such a household returns home if its original location would
\* satisfy it; else rents if it can afford to and a unit is available;
\* else moves to the first available new building; if none applies, its
\* status, its placement and every pool are left as they were
C26_ReturnRentalNewBuilding ==
  [][\A h \in Households :
        EvaluatesOptions(h)
          => IF AtLeastThreshold(calc_satisfaction_fast(update_economic_status(State, h), h, TRUE))
             THEN agents'[h].relocation_status = "return_back"
             ELSE IF RentalObtainable(h)
             THEN /\ agents'[h].relocation_status = "rental"
                  /\ agents'[h].rental_unit_id \in model.available_rental_units
                  /\ agents'[h].rental_unit_id \in model'.occupied_rental_units
             ELSE IF find_available_new_building(State) # None
             THEN /\ agents'[h].relocation_status = "new_building"
                  /\ agents'[h].new_building_id = find_available_new_building(State)
                  /\ agents'[h].new_building_id \in model'.occupied_new_buildings
             ELSE OnlyEvaluated(h)]_vars

\* this month a dissatisfied household away from home, with nothing to
\* rent, moved to the new building, and a later one, finding the building
\* taken, stayed where it was
C26_Witness ==
  \E h1, h2 \in Households :
    /\ h1 < h2 /\ model.cursor > h2
    /\ agents[h1].relocation_status = "new_building"
    /\ agents[h1].new_building_id \in model.occupied_new_buildings
    /\ Len(agents[h1].relocation_history) >= 2
    /\ agents[h1].relocation_history[Len(agents[h1].relocation_history)]
         = <<"new_building", model.current_month>>
    /\ agents[h2].relocation_status \in {"shelter", "rental", "relative", "return_back"}
    /\ ~AtLeastThreshold(agents[h2].satisfaction)
    /\ agents[h2].relocation_history[Len(agents[h2].relocation_history)][2]
         < model.current_month

\* ------------------------------------------------- the active shelter capacity
\* settings of config.TOTAL_SHELTER_UNITS, the shipped 20000 among them
ConfiguredShelterUnits == (0..12) \cup {100 * k : k \in 1..5} \cup {20000}

InitCapacity ==
  /\ \E units \in ConfiguredShelterUnits :
       model = [InitialState.model EXCEPT
                  !.total_shelter_capacity = units * DEFAULT_SHELTER_CAPACITY]
  /\ agents = InitialState.agents
  /\ stochastic_manager = NewManager([t \in DecisionTypes |-> TARGET_STOCHASTICITY \div 2])
  /\ replay = InitialState

\* advance counts the step (the households' steps do not touch the capacity)
CountStep ==
  /\ model.current_step < MaxLongSteps
  /\ model' = [model EXCEPT !.current_month = model.current_step + 1,
                            !.current_step = @ + 1]
  /\ UNCHANGED <<agents, stochastic_manager, replay>>

NextCapacity == CountStep

SpecCapacity == InitCapacity /\ [][NextCapacity]_vars

\* C27: the active capacity is floor(total_shelter_capacity x activation
\* of the current step), a step beyond the schedule's last key using the
\* last key's value, and it does not decrease from one step to a later one
C27_ActiveCapacityIsFloor ==
  /\ get_active_shelter_capacity(State)
       = (model.total_shelter_capacity * get_shelter_activation(model.current_step)) \div 100
  /\ model.current_step > Len(SHELTER_ACTIVATION_SCHEDULE)
       => get_shelter_activation(model.current_step)
            = SHELTER_ACTIVATION_SCHEDULE[Len(SHELTER_ACTIVATION_SCHEDULE)]
  /\ \A later \in model.current_step..MaxLongSteps :
       model.current_step >= 1
         => ActiveCapacityAt(model.total_shelter_capacity, later)
              >= get_active_shelter_capacity(State)

\* ------------------------------------------------- the pool of new buildings
\* new-building tables: the ids of df_new_buildings in row order
NewBuildingIds == {7, 8, 9}
NewBuildingTables ==
  {o \in UNION {[1..n -> NewBuildingIds] : n \in 0..Cardinality(NewBuildingIds)} :
     \A i, j \in DOMAIN o : i # j => o[i] # o[j]}

\* the month's column of df_new_buildings_recovery: a building may have no row
NewBuildingRecoveryColumns ==
  UNION {[ids -> {0, 1}] : ids \in SUBSET NewBuildingIds}

\* the run with the table new_buildings_order (kept with the model's fields)
InitNewBuildings ==
  /\ \E order \in NewBuildingTables :
       model = [f \in DOMAIN InitialState.model \cup {"new_buildings_order"} |->
                  IF f = "new_buildings_order" THEN order ELSE InitialState.model[f]]
  /\ agents = InitialState.agents
  /\ stochastic_manager = NewManager([t \in DecisionTypes |-> TARGET_STOCHASTICITY \div 2])
  /\ replay = InitialState

\* advance: the next month's column of the new buildings
NewBuildingsMonth ==
  /\ \E new_column \in NewBuildingRecoveryColumns :
       model' = [model EXCEPT !.new_building_lookup = new_column]
  /\ UNCHANGED <<agents, stochastic_manager, replay>>

\* a household takes the building that find_available_new_building returns
NewBuildingTaken ==
  /\ FindNewBuilding(model.new_buildings_order, State) # None
  /\ model' = [model EXCEPT !.occupied_new_buildings =
                  @ \cup {FindNewBuilding(model.new_buildings_order, State)}]
  /\ UNCHANGED <<agents, stochastic_manager, replay>>

NextNewBuildings == NewBuildingsMonth \/ NewBuildingTaken

SpecNewBuildings == InitNewBuildings /\ [][NextNewBuildings]_vars

\* building b of the table can be assigned: not occupied and flagged 1 for
\* the month (no entry counts as not functional)
Assignable(b) ==
  /\ b \notin model.occupied_new_buildings
  /\ b \in DOMAIN model.new_building_lookup
  /\ model.new_building_lookup[b] = 1

\* C28: find_available_new_building returns the first building in the
\* table's order that is not occupied and whose flag for the month is 1,
\* and None iff there is none; a building without an entry for the month
\* is not functional
C28_FirstAssignableNewBuilding ==
  LET order == model.new_buildings_order
      found == FindNewBuilding(order, State)
  IN /\ found = None <=> ~\E i \in DOMAIN order : Assignable(order[i])
     /\ found # None
          => \E i \in DOMAIN order :
               /\ order[i] = found
               /\ Assignable(found)
               /\ \A j \in 1..(i - 1) : ~Assignable(order[j])

\* the first building of the table is occupied, the next has no entry for
\* the month, and the third, flagged 1, is the one returned
C28_Witness ==
  /\ Len(model.new_buildings_order) = 3
  /\ model.new_buildings_order[1] \in model.occupied_new_buildings
  /\ model.new_buildings_order[2] \notin DOMAIN model.new_building_lookup
  /\ model.new_buildings_order[2] \notin model.occupied_new_buildings
  /\ model.new_buildings_order[1] > model.new_buildings_order[3]
  /\ FindNewBuilding(model.new_buildings_order, State) = model.new_buildings_order[3]

\* ------------------------------------------------- the nearest rental unit
\* C29: for the household about to step, find_available_rental_for_agent
\* returns None iff no unit is available and otherwise an available unit
\* of minimum distance to the household, and the unit it returns among
\* several of minimum distance is the same in every run (it does not
\* depend on the order in which the set of available units is iterated)
C29_NearestRentalStableTie ==
  \A h \in Households :
    model.cursor = h
      => /\ \A order \in IterationOrders(model.available_rental_units) :
              LET found == find_available_rental_for_agent(State, h, order)
              IN /\ found = None <=> model.available_rental_units = {}
                 /\ found # None
                      => /\ found \in model.available_rental_units
                         /\ \A u \in model.available_rental_units :
                              Dist2(agents[h].coord, rental_units[found].coord)
                                <= Dist2(agents[h].coord, rental_units[u].coord)
         /\ \A o1, o2 \in IterationOrders(model.available_rental_units) :
              find_available_rental_for_agent(State, h, o1)
                = find_available_rental_for_agent(State, h, o2)

\* ------------------------------------------------- the evacuation quota
\* the step of h, about to run, asks for an evacuation place: a forced
\* departure, an initial move that is denied everything, or a stuck
\* household that gets no shelter
AttemptsToLeave(h) ==
  \/ /\ LowNormalStep(h)
     /\ agents[h].months_low_satisfaction + 1 >= MONTHS_BEFORE_LEAVE_CITY
     /\ ~agents[h].has_left_deterministically
  \/ DeniedEverything(h)
  \/ /\ model.cursor = h
     /\ agents[h].relocation_status = "stuck"
     /\ \/ find_shelter_for_agent(State, h).result = None
        \/ find_shelter_for_agent(find_shelter_for_agent(State, h).s, h).result = None

\* the departures counted for the current month
EvacuationsThisMonth == Get(model.monthly_evacuations, model.current_month, 0)

\* C30: the month's evacuation places go to the households in iteration
\* order: a household that attempts to leave while the month's count is
\* below the quota ends the step in 'left_city' and the count grows by
\* exactly 1 before the next household steps; once the count has reached
\* the quota every later attempt is denied and ends in 'stuck'; no other
\* step changes the count
C30_QuotaFirstComeFirstServed ==
  [][\A h \in Households :
        model.cursor = h
          => IF AttemptsToLeave(h)
             THEN IF can_evacuate_agent(State, model.current_month)
                  THEN /\ agents'[h].relocation_status = "left_city"
                       /\ Get(model'.monthly_evacuations, model.current_month, 0)
                            = EvacuationsThisMonth + 1
                  ELSE /\ agents'[h].relocation_status = "stuck"
                       /\ Get(model'.monthly_evacuations, model.current_month, 0)
                            = EvacuationsThisMonth
             ELSE /\ Get(model'.monthly_evacuations, model.current_month, 0)
                       = EvacuationsThisMonth
                  /\ agents[h].relocation_status # "left_city"
                       => agents'[h].relocation_status # "left_city"]_vars

\* this month three households attempted the forced departure under a
\* quota of two: the first two left the city, the third became stuck
C30_Witness ==
  /\ ~get_evacuation_limit(model.current_step).inf
  /\ get_evacuation_limit(model.current_step).cap = 2
  /\ EvacuationsThisMonth = 2
  /\ \E h1, h2, h3 \in Households :
       /\ h1 < h2 /\ h2 < h3 /\ model.cursor > h3
       /\ \A h \in {h1, h2} :
            /\ agents[h].relocation_status = "left_city"
            /\ agents[h].relocation_history[Len(agents[h].relocation_history)]
                 = <<"left_city", model.current_month>>
       /\ agents[h3].relocation_status = "stuck"
       /\ agents[h3].relocation_history[Len(agents[h3].relocation_history)]
            = <<"stuck", model.current_month>>

\* ------------------------------------------------------------------ C31
\* the caches and the availability as the month's recovery column gives them
CachesRefreshed(m, ag) ==
  /\ \A h \in Households :
       /\ ag[h].job_id \in DOMAIN m.job_functionality_cache
       /\ m.job_functionality_cache[ag[h].job_id] = Get(m.recovery_lookup, ag[h].job_id, 1)
  /\ \A k \in DOMAIN m.service_functionality_cache :
       m.service_functionality_cache[k] =
         IF Get(m.recovery_lookup, k[2], 1) = 1 THEN 2 ELSE MIN_SERVICE_FUNCTIONALITY
  /\ {"school", "hospital"} \subseteq {k[1] : k \in DOMAIN m.service_functionality_cache}

AvailabilityRefreshed(m) ==
  \A u \in DOMAIN rental_units \ m.occupied_rental_units :
     u \in m.available_rental_units
       <=> Get(m.recovery_lookup, rental_units[u].building_id, 0) = 1

\* C31: within advance the phases run in order.  The step counter is
\* incremented and the job, school and hospital caches and the rental
\* availability are refreshed from the month's column while no household has
\* acted; then the households step one after another in creation order and
\* none of their steps modifies a functionality cache or the run's record;
\* only after the last household are the per-household rows collected and
\* the status distribution of the month recorded.
C31_PhasesInOrder ==
  [][
      /\ (model.cursor = 0) =>
          (/\ model'.current_step = model.current_step + 1
           /\ model'.cursor = 1
           /\ agents' = agents
           /\ CachesRefreshed(model', agents')
           /\ AvailabilityRefreshed(model')
           /\ model'.longitudinal_data = model.longitudinal_data
           /\ model'.monthly_distributions = model.monthly_distributions)
      /\ (model.cursor \in Households) =>
          (/\ model'.cursor = model.cursor + 1
           /\ model'.current_step = model.current_step
           /\ \A h \in Households \ {model.cursor} : agents'[h] = agents[h]
           /\ model'.job_functionality_cache = model.job_functionality_cache
           /\ model'.service_functionality_cache = model.service_functionality_cache
           /\ model'.longitudinal_data = model.longitudinal_data
           /\ model'.monthly_distributions = model.monthly_distributions)
      /\ (model.cursor = NumHouseholds + 1) =>
          (/\ model'.cursor = 0
           /\ model'.current_step = model.current_step
           /\ agents' = agents
           /\ Len(model'.longitudinal_data) = Len(model.longitudinal_data) + NumHouseholds
           /\ model.current_month \in DOMAIN model'.monthly_distributions
           /\ model.current_month \notin DOMAIN model.monthly_distributions)
    ]_vars

\* a second month has been completed in which a job building was not
\* functional and a household, having stepped, is away from its home
C31_Witness ==
  /\ model.cursor = 0
  /\ model.current_step = 2
  /\ \E h \in Households : model.job_functionality_cache[agents[h].job_id] = 0
  /\ \E h \in Households : agents[h].relocation_status # "original"
  /\ Len(model.longitudinal_data) = 2 * NumHouseholds
  /\ DOMAIN model.monthly_distributions = {1, 2}

\* ------------------------------------------------------------------ C32
\* the advances that have run to their end
CompletedAdvances ==
  IF model.cursor = 0 THEN model.current_step ELSE model.current_step - 1

\* C32: after n advances the run's record holds exactly n rows per
\* household, one per household per step and in creation order within a
\* step, and the relocation_status distribution recorded for every
\* simulated month sums to the number of households.
C32_RecordsAndDistributions ==
  /\ Len(model.longitudinal_data) = CompletedAdvances * NumHouseholds
  /\ \A k \in DOMAIN model.longitudinal_data :
       /\ model.longitudinal_data[k].H_ID = ((k - 1) % NumHouseholds) + 1
       /\ model.longitudinal_data[k].Step = ((k - 1) \div NumHouseholds) + 1
  /\ \A h \in Households :
       Cardinality({k \in DOMAIN model.longitudinal_data :
                      model.longitudinal_data[k].H_ID = h}) = CompletedAdvances
  /\ DOMAIN model.monthly_distributions = 1..CompletedAdvances
  /\ \A m \in DOMAIN model.monthly_distributions :
       SumOver(model.monthly_distributions[m].relocation_status,
               DOMAIN model.monthly_distributions[m].relocation_status) = NumHouseholds

\* two advances are complete, a household is outside the city, and the
\* distribution of the second month counts more than one status
C32_Witness ==
  /\ model.cursor = 0
  /\ model.current_step = 2
  /\ \E h \in Households : agents[h].relocation_status = "left_city"
  /\ Len(model.longitudinal_data) = 2 * NumHouseholds
  /\ 2 \in DOMAIN model.monthly_distributions
  /\ Cardinality(DOMAIN model.monthly_distributions[2].relocation_status) > 1

\* ------------------------------------------------------------------ C33
\* C33: shelter slot accounting is exact: for each shelter i,
\* shelter_occupancy[i] is the number of households whose shelter_id is i
\* and is at most shelter_capacity[i] (so a denied query changes no counter
\* and every placement, from original or from stuck, consumes one slot).
C33_SlotAccountingExact ==
  \A i \in DOMAIN model.shelter_occupancy :
     /\ model.shelter_occupancy[i] =
          Cardinality({h \in Households : agents[h].shelter_id = i})
     /\ model.shelter_occupancy[i] <= model.shelter_capacity[i]

\* ------------------------------------------------------------------ C34
\* C34: placement references agree with the status: shelter_id is set only
\* while the status is shelter, rental_unit_id only while it is rental and
\* new_building_id only while it is new_building; a household in left_city
\* or stuck holds no shelter slot, rental unit or new building.
C34_ReferencesAgreeWithStatus ==
  \A h \in Households :
     /\ agents[h].shelter_id # None => agents[h].relocation_status = "shelter"
     /\ agents[h].rental_unit_id # None => agents[h].relocation_status = "rental"
     /\ agents[h].new_building_id # None => agents[h].relocation_status = "new_building"

\* ------------------------------------------------------------------ C35
\* C35: the departure and return counters are consistent: total_departures
\* is the sum of monthly_evacuations over all months, and the number of
\* households in left_city is total_departures minus total_returns.
C35_DepartureCountersConsistent ==
  /\ model.left_city_stats.total_departures
       = SumOver(model.monthly_evacuations, DOMAIN model.monthly_evacuations)
  /\ Cardinality({h \in Households : agents[h].relocation_status = "left_city"})
       = model.left_city_stats.total_departures - model.left_city_stats.total_returns

\* departures were counted in two months, a household has come back and
\* another one is outside the city
C35_Witness ==
  /\ Cardinality({m \in DOMAIN model.monthly_evacuations :
                    model.monthly_evacuations[m] > 0}) >= 2
  /\ model.left_city_stats.total_returns >= 1
  /\ \E h \in Households : agents[h].relocation_status = "left_city"
  /\ \E h \in Households : agents[h].relocation_status = "return_back"

\* ------------------------------------------------------------------ C36
\* C36: original is never kept under low satisfaction and never re-entered:
\* a household in original whose satisfaction is below the threshold at its
\* step ends the step in rental, relative, shelter, left_city or stuck, and
\* a household whose status is not original is never in original again.
C36_OriginalLeftForGood ==
  [][
      \A h \in Households :
         /\ (LowNormalStep(h) /\ agents[h].relocation_status = "original")
              => agents'[h].relocation_status
                   \in {"rental", "relative", "shelter", "left_city", "stuck"}
         /\ agents[h].relocation_status # "original"
              => agents'[h].relocation_status # "original"
    ]_vars

\* a household that left its home in the first month is back in it with the
\* status return_back, and another one went from original straight to stuck
C36_Witness ==
  /\ \E h \in Households :
       /\ agents[h].relocation_status = "return_back"
       /\ agents[h].b_id = agents[h].original_b_id
       /\ Len(agents[h].relocation_history) >= 2
  /\ \E h \in Households :
       /\ agents[h].relocation_history # << >>
       /\ agents[h].relocation_history[1] = <<"stuck", 1>>

\* ------------------------------------------------------------------ C37
\* the statuses a household can be seen in between two steps
SettledStatuses ==
  {"original", "shelter", "rental", "relative", "new_building",
   "return_back", "stuck", "left_city"}

\* C37: the transient status return_from_outside is never observable between
\* steps: at the end of every household step, and so in every collected row
\* and every recorded distribution, relocation_status is one of original,
\* shelter, rental, relative, new_building, return_back, stuck, left_city.
C37_NoTransientStatus ==
  /\ \A h \in Households : agents[h].relocation_status \in SettledStatuses
  /\ \A k \in DOMAIN model.longitudinal_data :
       model.longitudinal_data[k].Relocation_Status \in SettledStatuses
  /\ \A m \in DOMAIN model.monthly_distributions :
       DOMAIN model.monthly_distributions[m].relocation_status \subseteq SettledStatuses

\* a household that was outside the city has made its return and the month
\* of the return has been recorded
C37_Witness ==
  /\ model.cursor = 0
  /\ model.left_city_stats.total_returns >= 1
  /\ \E h \in Households :
       /\ agents[h].relocation_status = "return_back"
       /\ \E k \in DOMAIN agents[h].relocation_history :
            agents[h].relocation_history[k][1] = "left_city"
  /\ "return_back" \in DOMAIN model.monthly_distributions[model.current_month].relocation_status

\* ------------------------------------------------------------------ C38
\* C38: months_low_satisfaction changes only in the normal branch.  In the
\* step of a household that is neither stuck nor left_city it grows by
\* exactly 1 when the satisfaction is below the threshold and becomes 0 when
\* it is not; the step of a stuck or left_city household leaves it as it
\* is, so neither a departure nor a return resets it; no household's streak
\* changes in another household's step.
C38_StreakOnlyInNormalBranch ==
  [][
      \A h \in Households :
         agents'[h].months_low_satisfaction =
           IF model.cursor # h \/ agents[h].relocation_status \in {"stuck", "left_city"}
           THEN agents[h].months_low_satisfaction
           ELSE IF ~AtLeastThreshold(agents'[h].satisfaction)
           THEN agents[h].months_low_satisfaction + 1
           ELSE 0
    ]_vars

\* a household that departed with a streak of MONTHS_BEFORE_LEAVE_CITY is
\* back home with the streak it left with, and another household is
\* satisfied with a streak of 0 after a placement
C38_Witness ==
  /\ \E h \in Households :
       /\ agents[h].relocation_status = "return_back"
       /\ agents[h].has_left_deterministically
       /\ agents[h].months_low_satisfaction = MONTHS_BEFORE_LEAVE_CITY
       /\ agents[h].relocation_history[Len(agents[h].relocation_history)]
            = <<"return_back", model.current_month>>
  /\ \E h \in Households :
       /\ agents[h].relocation_history # << >>
       /\ agents[h].months_low_satisfaction = 0
       /\ AtLeastThreshold(agents[h].satisfaction)

\* ------------------------------------------------------------------ C39
\* calls of should_apply_stochasticity and of reset in any order; the field
\* call names the last call made on the manager
InitReset ==
  /\ model = InitialState.model
  /\ agents = InitialState.agents
  /\ replay = InitialState
  /\ \E weights \in WeightSplits :
       stochastic_manager =
         [f \in DOMAIN NewManager(weights) \cup {"call"} |->
            IF f = "call" THEN "__init__" ELSE NewManager(weights)[f]]

DecideCall ==
  /\ stochastic_manager.decisions_made < MaxDecisions
  /\ \E decision_type \in DecisionTypes \cup {UnknownType}, r \in Draws :
       stochastic_manager' =
         [should_apply_stochasticity(stochastic_manager, decision_type, r)
            EXCEPT !.call = decision_type]
  /\ UNCHANGED <<model, agents, replay>>

ResetCall ==
  /\ stochastic_manager' = [reset(stochastic_manager) EXCEPT !.call = "reset"]
  /\ UNCHANGED <<model, agents, replay>>

NextReset == DecideCall \/ ResetCall

SpecReset == InitReset /\ [][NextReset]_vars

CountersConsistent(m) ==
  /\ 0 <= m.stochastic_decisions
  /\ m.stochastic_decisions <= m.decisions_made
  /\ m.decisions_made =
       SumOver([t \in DOMAIN m.decision_stats |-> m.decision_stats[t].total],
               DOMAIN m.decision_stats)
  /\ m.stochastic_decisions =
       SumOver([t \in DOMAIN m.decision_stats |-> m.decision_stats[t].stochastic],
               DOMAIN m.decision_stats)

\* C39: after any sequence of should_apply_stochasticity and reset calls,
\* 0 <= stochastic_decisions <= decisions_made, decisions_made is the sum of
\* the per-type total counters and stochastic_decisions the sum of the
\* per-type stochastic counters; a call with an unknown type returns False
\* and changes no counter; reset zeroes every counter and leaves the weights
\* unchanged.
C39_CountersConsistent ==
  /\ []CountersConsistent(stochastic_manager)
  /\ [][
         /\ stochastic_manager'.call = UnknownType
              => /\ stochastic_manager'.returned = FALSE
                 /\ stochastic_manager'.decisions_made = stochastic_manager.decisions_made
                 /\ stochastic_manager'.stochastic_decisions
                      = stochastic_manager.stochastic_decisions
                 /\ stochastic_manager'.decision_stats = stochastic_manager.decision_stats
         /\ stochastic_manager'.call = "reset"
              => /\ stochastic_manager'.decisions_made = 0
                 /\ stochastic_manager'.stochastic_decisions = 0
                 /\ \A t \in DOMAIN stochastic_manager'.decision_stats :
                      stochastic_manager'.decision_stats[t] = [total |-> 0, stochastic |-> 0]
                 /\ stochastic_manager'.decision_weights = stochastic_manager.decision_weights
                 /\ stochastic_manager'.target_cumulative
                      = stochastic_manager.target_cumulative
       ]_vars

\* the manager was reset right after a call that randomized a decision, so
\* counters that were not zero are zero now, under weights that are both
\* positive
C39_Witness ==
  /\ stochastic_manager.call = "reset"
  /\ stochastic_manager.returned = TRUE
  /\ stochastic_manager.decisions_made = 0
  /\ \A t \in DecisionTypes : stochastic_manager.decision_weights[t] > 0

====
